---- MODULE Spec2Model ----
(***************************************************************************)
(* A model of the LyAssistant core: config loading and composite scoring   *)
(* with the daily drift cap (src/src/core_analysis.py), the sanity layer's *)
(* daily evaluation, health guard, health history and health trend         *)
(* (src/src/sanity_layer.py), performance tracking                         *)
(* (src/src/performance_tracker.py), the strategy evolution engine with    *)
(* its cooldown state (src/src/strategy_evolution.py), the manual analysis *)
(* endpoint (src/src/manual_api.py) and the daily scanner run              *)
(* (src/scripts/run_daily_scanner.py).                                     *)
(*                                                                         *)
(* Python dicts are functions whose DOMAIN is the set of keys present; a   *)
(* missing file or an empty dict is EmptyDict.  Scores, weights and caps   *)
(* are JSON integers, so int(v) and float(v) leave them as they are;       *)
(* prices, returns and rates are integers in the unit stated where they    *)
(* are computed.  An ISO date string is a pair <<day, format>>: two        *)
(* strings of different format can denote the same calendar day.           *)
(***************************************************************************)
EXTENDS Integers, Sequences, FiniteSets, TLC

VARIABLES
    evolution_config,   \* config/evolution_config.json as loaded
    current_weights,    \* analysis_config["weights"], the old_weights of a run
    evolution_state,    \* the persisted cooldown state file (state_path)
    evolution_report,   \* the report of the last run_strategy_evolution
    evolution_run,      \* arguments and locals of that run: current_date, state read
    outcomes_file,      \* the outcome records at outcomes_path
    performance_run,    \* their summary and the weights evolved from it
    health_history,     \* the persisted health history file (history_path)
    history_calls,      \* per calendar day, the snapshot of the latest call
    health_trend,       \* compute_health_trend of the history just written
    sanity_config,      \* config/sanity_rules.json as loaded
    guard_call,         \* arguments of the last apply_health_controls
    guard_result,       \* its return value: adjusted batch and controls
    analyses,           \* the results the daily scan has collected so far
    daily_sanity_report, \* the report of evaluate_daily_sanity over them
    config_load,        \* the load_analysis_config call: the file read, its outcome
    analysis_config,    \* config/analysis_config.json as loaded
    analysis_call,      \* arguments of the last analyze_stock
    analysis_result,    \* its return value
    handler_config,     \* ManualAnalysisHandler.config, shared by the handler threads
    manual_requests,    \* per request: payload, stage, the thread's locals, response
    daily_run           \* the daily scanner run: stage, stocks read, results as scored

vars == <<evolution_config, current_weights, evolution_state, evolution_report,
          evolution_run, outcomes_file, performance_run, health_history, history_calls,
          health_trend, sanity_config, guard_call,
          guard_result, analyses, daily_sanity_report, config_load, analysis_config,
          analysis_call, analysis_result, handler_config, manual_requests,
          daily_run>>

evolution_vars == <<evolution_config, current_weights, evolution_state,
                    evolution_report, evolution_run>>
history_vars == <<health_history, history_calls, health_trend>>
guard_vars == <<sanity_config, guard_call, guard_result>>
sanity_vars == <<analyses, daily_sanity_report>>
performance_vars == <<outcomes_file, performance_run>>
analysis_vars == <<config_load, analysis_config, analysis_call, analysis_result>>
manual_vars == <<handler_config, manual_requests>>

----------------------------------------------------------------------------
(* Python values *)

EmptyDict == [k \in {} |-> 0]

Max(a, b) == IF a >= b THEN a ELSE b
Min(a, b) == IF a <= b THEN a ELSE b
Abs(a) == IF a >= 0 THEN a ELSE -a

RECURSIVE SumOver(_, _)
SumOver(f, keys) ==
    IF keys = {} THEN 0
    ELSE LET k == CHOOSE x \in keys : TRUE
         IN f[k] + SumOver(f, keys \ {k})

SumValues(f) == SumOver(f, DOMAIN f)

RECURSIVE SumSeq(_)
SumSeq(s) == IF s = <<>> THEN 0 ELSE Head(s) + SumSeq(Tail(s))

RECURSIVE Concat(_)
Concat(seqs) == IF seqs = <<>> THEN <<>> ELSE Head(seqs) \o Concat(Tail(seqs))

\* Python's round(n / d) for d > 0: to the nearest integer, ties to the even one
RoundHalfEven(n, d) ==
    LET q == n \div d
        r == n % d
    IN IF 2 * r < d THEN q
       ELSE IF 2 * r > d THEN q + 1
       ELSE IF q % 2 = 0 THEN q ELSE q + 1

----------------------------------------------------------------------------
(* ISO dates *)

MaxDay == 3
Days == 0..MaxDay

ExtendedFormat == "YYYY-MM-DD"
BasicFormat == "YYYYMMDD"

\* date.isoformat(): the string written for a day
isoformat(day) == <<day, ExtendedFormat>>

\* date.fromisoformat: both formats of one day parse to the same date
fromisoformat(s) == s[1]

_parse_date(value) == fromisoformat(value)

_days_since(last_date, current_date) ==
    fromisoformat(current_date) - fromisoformat(last_date)

----------------------------------------------------------------------------
(* Strategy evolution: src/src/strategy_evolution.py.  The evolution config  *)
(* is held flat: weight_adjustment.*, safety_guards.cooldown_days and the   *)
(* two safety_guards.manual_overrides flags are fields of one record.       *)

\* the weight keys / strategy ids, in ascending string order
KeyOrder == <<"fundamentals", "news_sentiment", "trend_momentum">>
WeightKeys == {KeyOrder[i] : i \in 1..Len(KeyOrder)}

KeyIndex(k) == CHOOSE i \in 1..Len(KeyOrder) : KeyOrder[i] = k

\* sorted(keys) for a set of strings
Sorted(keys) == SelectSeq(KeyOrder, LAMBDA k : k \in keys)

_read_evolution_state(state_file) == state_file

\* the elapsed days taken from the current date back to the last update
_cooldown_active_reversed(cfg, state, current_date) ==
    IF cfg.disable_evolution_cooldown THEN FALSE
    ELSE IF cfg.cooldown_days <= 0 THEN FALSE
    ELSE IF "last_weight_update_date" \notin DOMAIN state THEN FALSE
    ELSE _days_since(current_date, state["last_weight_update_date"]) < cfg.cooldown_days

_cooldown_active(cfg, state, current_date) ==
    IF cfg.disable_evolution_cooldown THEN FALSE
    ELSE IF cfg.cooldown_days <= 0 THEN FALSE
    ELSE IF "last_weight_update_date" \notin DOMAIN state THEN FALSE
    ELSE _days_since(state["last_weight_update_date"], current_date) < cfg.cooldown_days

\* sorted(((k, values[k] - floors[k]) for k in values), key=(-fraction, key))
SortedFractions(values, floors) ==
    LET frac(k) == values[k] - floors[k]
        before(a, b) == \/ frac(a) > frac(b)
                        \/ frac(a) = frac(b) /\ KeyIndex(a) < KeyIndex(b)
        n == Cardinality(DOMAIN values)
    IN CHOOSE s \in [1..n -> DOMAIN values] :
           /\ \A i, j \in 1..n : i < j => before(s[i], s[j])

RECURSIVE DistributeRemainder(_, _, _, _)
DistributeRemainder(result, fractions, index, remainder) ==
    IF index >= Max(0, remainder) THEN result
    ELSE LET k == fractions[(index % Len(fractions)) + 1]
         IN DistributeRemainder([result EXCEPT ![k] = @ + 1], fractions,
                                index + 1, remainder)

_round_preserve_total(values, total) ==
    LET floors == [k \in DOMAIN values |-> values[k]]
        remainder == total - SumValues(floors)
    IN IF DOMAIN values = {} THEN floors
       ELSE DistributeRemainder(floors, SortedFractions(values, floors), 0, remainder)

\* a record with the two weights exchanged
WeightChange_swapped(strategy_id, weight_key, old_weight, new_weight, reason) ==
    [strategy_id |-> strategy_id, weight_key |-> weight_key,
     old_weight |-> new_weight, new_weight |-> old_weight, reason |-> reason]

WeightChange(strategy_id, weight_key, old_weight, new_weight, reason) ==
    [strategy_id |-> strategy_id, weight_key |-> weight_key,
     old_weight |-> old_weight, new_weight |-> new_weight, reason |-> reason]

\* a step down that is not floored at min_weight
EvolveStep_no_floor(acc, strategy_id, performance_summary, cfg) ==
    LET weight_key == cfg.strategy_to_weight_key[strategy_id]
        old_weight == acc.candidate[weight_key]
        new_weight == IF strategy_id \notin DOMAIN performance_summary THEN old_weight
                      ELSE IF performance_summary[strategy_id].degraded
                      THEN old_weight - cfg.step_pct
                      ELSE Min(cfg.max_weight, old_weight + cfg.step_pct)
    IN IF new_weight # old_weight
       THEN [candidate |-> [acc.candidate EXCEPT ![weight_key] = new_weight],
             total_shift |-> acc.total_shift + Abs(new_weight - old_weight),
             changes |-> Append(acc.changes,
                                WeightChange(strategy_id, weight_key, old_weight,
                                             new_weight, "step"))]
       ELSE acc

\* one iteration of the loop over sorted(mapping), after the total_shift test
EvolveStep(acc, strategy_id, performance_summary, cfg) ==
    LET weight_key == cfg.strategy_to_weight_key[strategy_id]
        old_weight == acc.candidate[weight_key]
        degraded == {sid \in DOMAIN performance_summary :
                        performance_summary[sid].degraded}
        outperforming == {sid \in DOMAIN performance_summary :
                             ~performance_summary[sid].degraded}
        new_weight == IF strategy_id \in degraded
                      THEN Max(cfg.min_weight, old_weight - cfg.step_pct)
                      ELSE IF strategy_id \in outperforming
                      THEN Min(cfg.max_weight, old_weight + cfg.step_pct)
                      ELSE old_weight
        reason == IF strategy_id \in degraded THEN "degraded performance detected"
                  ELSE IF strategy_id \in outperforming
                  THEN "relative outperformance detected"
                  ELSE "insufficient data"
    IN IF new_weight # old_weight
       THEN [candidate |-> [acc.candidate EXCEPT ![weight_key] = new_weight],
             total_shift |-> acc.total_shift + Abs(new_weight - old_weight),
             changes |-> Append(acc.changes,
                                WeightChange(strategy_id, weight_key, old_weight,
                                             new_weight, reason))]
       ELSE acc

RECURSIVE EvolveLoop(_, _, _, _)
EvolveLoop(ids, acc, performance_summary, cfg) ==
    IF ids = <<>> THEN acc
    ELSE IF acc.total_shift >= cfg.max_total_adjustment_pct THEN acc
    ELSE EvolveLoop(Tail(ids), EvolveStep(acc, Head(ids), performance_summary, cfg),
                    performance_summary, cfg)

\* the loop run over the strategy ids in descending order
evolve_weights_descending(weights, performance_summary, cfg) ==
    LET ids == Sorted(DOMAIN cfg.strategy_to_weight_key)
        acc == EvolveLoop([i \in 1..Len(ids) |-> ids[Len(ids) + 1 - i]],
                          [candidate |-> weights, total_shift |-> 0, changes |-> <<>>],
                          performance_summary, cfg)
    IN [new_weights |-> _round_preserve_total(acc.candidate, 100),
        changes |-> acc.changes]

evolve_weights(weights, performance_summary, cfg) ==
    LET acc == EvolveLoop(Sorted(DOMAIN cfg.strategy_to_weight_key),
                          [candidate |-> weights, total_shift |-> 0, changes |-> <<>>],
                          performance_summary, cfg)
    IN [new_weights |-> _round_preserve_total(acc.candidate, 100),
        changes |-> acc.changes]

\* the cooldown left out of the test of line 183
UpdatesBlocked_override_only(cfg, cooldown_active) ==
    cfg.disable_weight_updates

\* line 183: the run passes the weights through instead of evolving them
UpdatesBlocked(cfg, cooldown_active) ==
    cfg.disable_weight_updates \/ cooldown_active

generate_evolution_report(performance_summary, old_weights, new_weights, changes, cooldown_active) ==
    [cooldown_active |-> cooldown_active,
     what_worked_recently |-> Sorted({sid \in DOMAIN performance_summary :
                                         ~performance_summary[sid].degraded}),
     what_failed |-> Sorted({sid \in DOMAIN performance_summary :
                                performance_summary[sid].degraded}),
     old_weights |-> old_weights,
     new_weights |-> new_weights,
     applied_changes |-> changes,
     performance_details |-> performance_summary]

\* the state written by every run that was not blocked
StateAfterRun_unconditional(state, blocked, changes, current_date) ==
    IF ~blocked
    THEN [last_weight_update_date |-> current_date]
    ELSE state

\* the state file after the run: written only when changes were applied
StateAfterRun(state, blocked, changes, current_date) ==
    IF ~blocked /\ changes # <<>>
    THEN [last_weight_update_date |-> current_date]
    ELSE state

run_strategy_evolution(performance_summary, current_date) ==
    LET old_weights == current_weights
        state == _read_evolution_state(evolution_state)
        cooldown_active == _cooldown_active(evolution_config, state, current_date)
        blocked == UpdatesBlocked(evolution_config, cooldown_active)
        evolved == evolve_weights(old_weights, performance_summary, evolution_config)
        new_weights == IF blocked THEN old_weights ELSE evolved.new_weights
        changes == IF blocked THEN <<>> ELSE evolved.changes
    IN /\ evolution_state' = StateAfterRun(state, blocked, changes, current_date)
       /\ evolution_report' = generate_evolution_report(performance_summary, old_weights,
                                                        new_weights, changes,
                                                        cooldown_active)
       /\ evolution_run' = [current_date |-> current_date, state |-> state]
       /\ UNCHANGED <<evolution_config, current_weights>>

\* configurations and inputs of the evolution runs
WeightChoices ==
    { [fundamentals |-> 50, news_sentiment |-> 30, trend_momentum |-> 20],
      [fundamentals |-> 8, news_sentiment |-> 34, trend_momentum |-> 58] }

AdjustmentChoices ==
    { [step_pct |-> 5, max_total_adjustment_pct |-> 10],
      [step_pct |-> 3, max_total_adjustment_pct |-> 5],
      [step_pct |-> 10, max_total_adjustment_pct |-> 5] }

MappingChoices ==
    { [k \in WeightKeys |-> k] }

GuardChoices ==
    { [cooldown_days |-> 0, disable_evolution_cooldown |-> FALSE,
       disable_weight_updates |-> FALSE],
      [cooldown_days |-> 2, disable_evolution_cooldown |-> FALSE,
       disable_weight_updates |-> FALSE],
      [cooldown_days |-> 2, disable_evolution_cooldown |-> TRUE,
       disable_weight_updates |-> FALSE],
      [cooldown_days |-> 2, disable_evolution_cooldown |-> FALSE,
       disable_weight_updates |-> TRUE] }

EvolutionConfigs ==
    { [strategy_to_weight_key |-> m,
       step_pct |-> a.step_pct,
       max_total_adjustment_pct |-> a.max_total_adjustment_pct,
       min_weight |-> 5, max_weight |-> 60,
       cooldown_days |-> g.cooldown_days,
       disable_evolution_cooldown |-> g.disable_evolution_cooldown,
       disable_weight_updates |-> g.disable_weight_updates] :
      m \in MappingChoices, a \in AdjustmentChoices, g \in GuardChoices }

\* summarize_strategy_performance's result: a row per strategy with outcomes
PerformanceSummaries ==
    UNION { [present -> [degraded : BOOLEAN]] : present \in SUBSET WeightKeys }

EvolutionDates == {isoformat(d) : d \in Days}

EvolutionInit ==
    /\ evolution_config \in EvolutionConfigs
    /\ current_weights \in WeightChoices
    /\ evolution_state = EmptyDict
    /\ evolution_report = EmptyDict
    /\ evolution_run = EmptyDict

EvolutionIdle ==
    /\ evolution_config = EmptyDict
    /\ current_weights = EmptyDict
    /\ evolution_state = EmptyDict
    /\ evolution_report = EmptyDict
    /\ evolution_run = EmptyDict

RunStrategyEvolution ==
    \E performance_summary \in PerformanceSummaries, current_date \in EvolutionDates :
        run_strategy_evolution(performance_summary, current_date)

----------------------------------------------------------------------------
(* Health history: src/src/sanity_layer.py, update_health_history *)

MaxHistoryDay == 2
HistoryDays == 0..MaxHistoryDay

\* the strings date.fromisoformat accepts for the days of the model
ReportDates == {<<d, f>> : d \in HistoryDays, f \in {ExtendedFormat, BasicFormat}}

\* the (sanity_report, analysis_results) pairs written as snapshots: reports
\* of evaluate_daily_sanity over two stocks at 10 points per violation
SnapshotChoices ==
    { [health_score |-> 90, violation_count |-> 1, stock_count |-> 2,
       violations_by_ticker |->
           <<[ticker |-> "AAPL",
              violations |-> <<[violation |-> "rating_mismatch", expected |-> "BUY",
                                score |-> 72, got |-> "HOLD"]>>],
             [ticker |-> "MSFT", violations |-> <<>>]>>],
      [health_score |-> 40, violation_count |-> 6, stock_count |-> 2,
       violations_by_ticker |->
           <<[ticker |-> "AAPL",
              violations |-> <<[violation |-> "rating_mismatch", expected |-> "SELL",
                                score |-> 45, got |-> "HOLD"],
                               [violation |-> "target_return_mismatch",
                                implied |-> 1000, expected |-> 0],
                               [violation |-> "missing_key_reasons"]>>],
             [ticker |-> "MSFT",
              violations |-> <<[violation |-> "missing_key_reasons"],
                               [violation |-> "missing_invalidating_factors"],
                               [violation |-> "high_risk_buy"]>>]>>] }

HistoryEntry(report_date, snapshot) ==
    [date |-> report_date,
     health_score |-> snapshot.health_score,
     violation_count |-> snapshot.violation_count,
     stock_count |-> snapshot.stock_count,
     violations_by_ticker |-> snapshot.violations_by_ticker]

\* line 163: the rows kept are those whose date string differs from report_date
DropReportDate(history, report_date) ==
    SelectSeq(history, LAMBDA row : row.date # report_date)

\* list.sort(key=_parse_date): a stable sort, here by insertion
RECURSIVE InsertByDate(_, _)
InsertByDate(sorted, row) ==
    IF sorted = <<>> THEN <<row>>
    ELSE IF _parse_date(Head(sorted).date) <= _parse_date(row.date)
    THEN <<Head(sorted)>> \o InsertByDate(Tail(sorted), row)
    ELSE <<row>> \o sorted

RECURSIVE SortByDate(_)
SortByDate(history) ==
    IF history = <<>> THEN <<>>
    ELSE InsertByDate(SortByDate(SubSeq(history, 1, Len(history) - 1)),
                      history[Len(history)])

update_health_history(report_date, snapshot) ==
    LET report_day == _parse_date(report_date)
        entry == HistoryEntry(report_date, snapshot)
        history == SortByDate(Append(DropReportDate(health_history, report_date), entry))
    IN /\ health_history' = history
       /\ history_calls' = (report_day :> entry) @@ history_calls

\* values[-window:]
LastRows(values, window) ==
    SubSeq(values, Max(1, Len(values) - window + 1), Len(values))

\* in hundredths; absent (None) for no values
_moving_average(values, window) ==
    IF values = <<>> THEN EmptyDict
    ELSE LET window_values == LastRows(values, window)
         IN [value |-> RoundHalfEven(100 * SumSeq(window_values), Len(window_values))]

\* in thousandths; absent (None) for fewer than two values
_slope(values) ==
    IF Len(values) < 2 THEN EmptyDict
    ELSE [value |-> RoundHalfEven(1000 * (values[Len(values)] - values[1]),
                                  Len(values) - 1)]

\* in thousandths; absent (None) for an empty history
_violation_density(history, window) ==
    IF history = <<>> THEN EmptyDict
    ELSE LET window_rows == LastRows(history, window)
             total_violations == SumSeq([i \in DOMAIN window_rows |->
                                            window_rows[i].violation_count])
             total_stocks == SumSeq([i \in DOMAIN window_rows |->
                                        window_rows[i].stock_count])
         IN [value |-> IF total_stocks = 0 THEN 0
                       ELSE RoundHalfEven(1000 * total_violations, total_stocks)]

\* in days; absent (None) for an empty history or one with no healthy row
_recovery_time_days(history, threshold) ==
    IF history = <<>> THEN EmptyDict
    ELSE LET latest_date == _parse_date(history[Len(history)].date)
             healthy == {i \in DOMAIN history : history[i].health_score >= threshold}
         IN IF healthy = {} THEN EmptyDict
            ELSE LET last_healthy == CHOOSE i \in healthy : \A j \in healthy : j <= i
                 IN [value |-> latest_date - _parse_date(history[last_healthy].date)]

\* lines 215-218: every violation of the rows, in the order the loops meet them
RECURSIVE WindowViolations(_)
WindowViolations(window_rows) ==
    IF window_rows = <<>> THEN <<>>
    ELSE LET items == Head(window_rows).violations_by_ticker
         IN Concat([i \in DOMAIN items |-> items[i].violations])
                \o WindowViolations(Tail(window_rows))

\* the dict counts as the list of its items: one per distinct violation
\* string, in first-seen order
RECURSIVE CountItems(_)
CountItems(violations) ==
    IF violations = <<>> THEN <<>>
    ELSE LET violation == Head(violations)
             others == SelectSeq(Tail(violations), LAMBDA v : v # violation)
         IN <<[violation |-> violation,
               count |-> Len(violations) - Len(others)]>> \o CountItems(others)

\* sorted(items, key=count, reverse=True): stable, equal counts keep their order
RECURSIVE SortByCount(_)
SortByCount(items) ==
    IF items = <<>> THEN <<>>
    ELSE LET ranked == SortByCount(SubSeq(items, 1, Len(items) - 1))
             item == items[Len(items)]
             k == Cardinality({i \in DOMAIN ranked : ranked[i].count >= item.count})
         IN SubSeq(ranked, 1, k) \o <<item>> \o SubSeq(ranked, k + 1, Len(ranked))

_root_cause_summary(history, window) ==
    IF history = <<>> THEN <<>>
    ELSE LET ranked == SortByCount(CountItems(WindowViolations(LastRows(history, window))))
         IN SubSeq(ranked, 1, Min(5, Len(ranked)))

\* a None value is an absent key
compute_health_trend(history) ==
    LET scores == [i \in DOMAIN history |-> history[i].health_score]
        field(name, optional) == IF optional = EmptyDict THEN EmptyDict
                                 ELSE name :> optional.value
    IN field("moving_average_5d", _moving_average(scores, 5))
       @@ field("moving_average_20d", _moving_average(scores, 20))
       @@ field("slope_7d", _slope(LastRows(scores, 7)))
       @@ field("violation_density_5d", _violation_density(history, 5))
       @@ field("violation_density_20d", _violation_density(history, 20))
       @@ field("recovery_time_days", _recovery_time_days(history, 85))
       @@ [root_cause_summary |-> _root_cause_summary(history, 20)]

HistoryInit ==
    health_history = <<>> /\ history_calls = EmptyDict /\ health_trend = EmptyDict

HistoryIdle ==
    health_history = <<>> /\ history_calls = EmptyDict /\ health_trend = EmptyDict

\* the history step of the daily run: the snapshot is stored and the trend
\* computed over the history returned
UpdateHealthHistory ==
    \E report_date \in ReportDates, snapshot \in SnapshotChoices :
        /\ update_health_history(report_date, snapshot)
        /\ health_trend' = compute_health_trend(health_history')

----------------------------------------------------------------------------
(* Health guard: src/src/sanity_layer.py, apply_health_controls *)

MaxBatch == 2

Ratings == {"BUY", "HOLD", "SELL"}

Tickers == <<"AAPL", "MSFT", "NVDA">>

\* analysis results as the sanity layer receives them
ResultRows(ticker) ==
    [ticker : {ticker}, score : {45, 72}, rating : Ratings, risk_level : {"High"},
     current_price : {10000}, target_price : {10550}, expected_return_pct : {55},
     key_reasons : {<<"trend_momentum">>}, invalidating_factors : {<<"risk_volatility">>}]

Batches ==
    UNION { {b \in [1..n -> UNION {ResultRows(Tickers[i]) : i \in 1..n}] :
                \A i \in 1..n : b[i].ticker = Tickers[i]} : n \in 0..MaxBatch }

SanityConfigs == [block_buy_below_health_score : {50, 100}]

HealthScores == {0, 49, 50, 100}

\* the guard fires at a health score equal to the threshold as well
GuardActive_inclusive(health_score, control_cfg) ==
    health_score <= control_cfg.block_buy_below_health_score

\* line 103
GuardActive(health_score, control_cfg) ==
    health_score < control_cfg.block_buy_below_health_score

\* base_rating read after the downgrade
EnrichRow_base_after(row, health_score, guard_active) ==
    LET rating == IF guard_active /\ row.rating = "BUY" THEN "HOLD" ELSE row.rating
        enriched == [health_score |-> health_score,
                     sanity_guard_active |-> guard_active,
                     base_rating |-> rating] @@ [row EXCEPT !.rating = rating]
    IN IF guard_active /\ row.rating = "BUY"
       THEN ("sanity_adjustment_reason" :> "health_guard_blocked_buy") @@ enriched
       ELSE enriched

\* lines 106-113: a copy of the row with the guard's keys, HOLD for a guarded BUY
EnrichRow(row, health_score, guard_active) ==
    LET enriched == [health_score |-> health_score,
                     sanity_guard_active |-> guard_active,
                     base_rating |-> row.rating] @@ row
    IN IF guard_active /\ row.rating = "BUY"
       THEN ("sanity_adjustment_reason" :> "health_guard_blocked_buy")
            @@ [enriched EXCEPT !.rating = "HOLD"]
       ELSE enriched

apply_health_controls(analysis_results, sanity_report, config) ==
    LET health_score == sanity_report.health_score
        guard_active == GuardActive(health_score, config)
        adjusted == [i \in 1..Len(analysis_results) |->
                        EnrichRow(analysis_results[i], health_score, guard_active)]
        adjusted_count == Cardinality({i \in 1..Len(analysis_results) :
                                          guard_active /\ analysis_results[i].rating = "BUY"})
    IN [adjusted |-> adjusted,
        controls |-> [health_guard_active |-> guard_active,
                      buy_recommendations_downgraded |-> adjusted_count,
                      policy |-> [block_buy_below_health_score |->
                                      config.block_buy_below_health_score]]]

GuardInit ==
    /\ sanity_config \in SanityConfigs
    /\ guard_call = EmptyDict
    /\ guard_result = EmptyDict

GuardIdle == sanity_config = EmptyDict /\ guard_call = EmptyDict /\ guard_result = EmptyDict

ApplyHealthControls ==
    \E analysis_results \in Batches, health_score \in HealthScores :
        LET sanity_report == [health_score |-> health_score]
        IN /\ guard_call' = [analysis_results |-> analysis_results,
                             sanity_report |-> sanity_report]
           /\ guard_result' = apply_health_controls(analysis_results, sanity_report,
                                                    sanity_config)
           /\ UNCHANGED sanity_config

----------------------------------------------------------------------------
(* Scoring: src/src/core_analysis.py *)

_clamp(value, minimum, maximum) == Max(minimum, Min(maximum, value))

\* a failed weight check that lets totals below 100 through
_validate_config_upper_only(config) ==
    IF "weights" \notin DOMAIN config THEN "KeyError"
    ELSE IF SumValues(config.weights) > 100 THEN "ValueError"
    ELSE "loaded"

\* the exception raised, or "loaded" when the function returns
_validate_config(config) ==
    IF "weights" \notin DOMAIN config THEN "KeyError"
    ELSE IF SumValues(config.weights) # 100 THEN "ValueError"
    ELSE "loaded"

\* the outcome of the call and the config it returns to the caller, if any
load_analysis_config(file) ==
    LET outcome == _validate_config(file)
    IN [outcome |-> outcome,
        config |-> IF outcome = "loaded" THEN file ELSE EmptyDict]

\* the two earnings scores exchanged
_selected_earnings_score_swapped(mode, scores) ==
    IF mode = "PRE_EARNINGS" THEN scores.earnings_context_post
    ELSE scores.earnings_context_pre

_selected_earnings_score(mode, scores) ==
    IF mode = "PRE_EARNINGS" THEN scores.earnings_context_pre
    ELSE scores.earnings_context_post

\* the keys of raw_components in insertion order
ComponentOrder ==
    <<"trend_momentum", "fundamentals", "news_sentiment", "earnings_context",
      "risk_volatility">>

ComponentKeys == { ComponentOrder[i] : i \in DOMAIN ComponentOrder }

\* the breakdown in hundredths of a point: clamped component * weight
calculate_score_breakdown(analysis_input, config) ==
    LET bounds == config.score_bounds
        raw_components ==
            [trend_momentum |-> analysis_input.scores.trend_momentum,
             fundamentals |-> analysis_input.scores.fundamentals,
             news_sentiment |-> analysis_input.scores.news_sentiment,
             earnings_context |-> _selected_earnings_score(analysis_input.mode,
                                                           analysis_input.scores),
             risk_volatility |-> analysis_input.scores.risk_volatility]
        clamped_components ==
            [key \in ComponentKeys |-> _clamp(raw_components[key], bounds.min, bounds.max)]
    IN [key \in ComponentKeys |-> clamped_components[key] * config.weights[key]]

calculate_composite_score(score_breakdown, config) ==
    LET bounds == config.score_bounds
        score == RoundHalfEven(SumValues(score_breakdown), 100)
    IN _clamp(score, bounds.min, bounds.max)

\* the cap applied on the upper side only
apply_daily_score_change_cap_upper_only(score, call, config) ==
    IF "previous_score" \notin DOMAIN call THEN score
    ELSE IF config.safety_guards.manual_overrides.disable_score_change_cap THEN score
    ELSE IF "max_daily_score_change" \notin DOMAIN config.safety_guards THEN score
    ELSE Min(call.previous_score + config.safety_guards.max_daily_score_change, score)

\* `call` holds the key previous_score unless the argument is None
apply_daily_score_change_cap(score, call, config) ==
    IF "previous_score" \notin DOMAIN call THEN score
    ELSE IF config.safety_guards.manual_overrides.disable_score_change_cap THEN score
    ELSE IF "max_daily_score_change" \notin DOMAIN config.safety_guards THEN score
    ELSE LET max_change == config.safety_guards.max_daily_score_change
             lower == call.previous_score - max_change
             upper == call.previous_score + max_change
         IN _clamp(score, lower, upper)

\* BUY only above buy_min, HOLD only above hold_min
map_score_to_rating_strict(score, config) ==
    IF score > config.rating_thresholds.buy_min THEN "BUY"
    ELSE IF score > config.rating_thresholds.hold_min THEN "HOLD"
    ELSE "SELL"

map_score_to_rating(score, config) ==
    IF score >= config.rating_thresholds.buy_min THEN "BUY"
    ELSE IF score >= config.rating_thresholds.hold_min THEN "HOLD"
    ELSE "SELL"

classify_risk_level(risk_volatility_score, config) ==
    IF risk_volatility_score >= config.risk_level_thresholds.low_risk_min THEN "Low"
    ELSE IF risk_volatility_score >= config.risk_level_thresholds.medium_risk_min
    THEN "Medium"
    ELSE "High"

\* Prices are in cents.  return_per_score_point is in hundredths of a percent
\* per point and min/max_return_pct in whole percent, so the return before
\* rounding is an exact number of hundredths; the result is the target in
\* cents and the expected return rounded to tenths of a percent.
estimate_target_price(current_price, score, config) ==
    LET target_cfg == config.target_price
        delta_points == score - target_cfg.neutral_score
        expected_return_pct ==
            _clamp(delta_points * target_cfg.return_per_score_point,
                   100 * target_cfg.min_return_pct, 100 * target_cfg.max_return_pct)
    IN [target_price |-> RoundHalfEven(current_price * (10000 + expected_return_pct),
                                       10000),
        expected_return_pct |-> RoundHalfEven(expected_return_pct, 10)]

\* component_key.replace("_", " ").title()
_component_label(component_key) ==
    [trend_momentum |-> "Trend Momentum", fundamentals |-> "Fundamentals",
     news_sentiment |-> "News Sentiment", earnings_context |-> "Earnings Context",
     risk_volatility |-> "Risk Volatility"][component_key]

\* sorted(score_breakdown.items(), key=item[1], reverse=descending): a stable
\* sort, items of equal contribution stay in insertion order
SortedComponents(score_breakdown, descending) ==
    LET index(key) == CHOOSE i \in DOMAIN ComponentOrder : ComponentOrder[i] = key
        before(a, b) ==
            \/ IF descending THEN score_breakdown[a] > score_breakdown[b]
                             ELSE score_breakdown[a] < score_breakdown[b]
            \/ score_breakdown[a] = score_breakdown[b] /\ index(a) < index(b)
        rank(key) == 1 + Cardinality({other \in ComponentKeys : before(other, key)})
    IN [position \in DOMAIN ComponentOrder |->
           CHOOSE key \in ComponentKeys : rank(key) = position]

\* a reason string is the pair of the label and the contribution it prints
build_explanations(score_breakdown, config) ==
    LET reason_cfg == config.reason_generation
        ordered == SortedComponents(score_breakdown, TRUE)
        top_positive == SubSeq(ordered, 1, Min(Len(ordered),
                                               reason_cfg.top_positive_reasons))
        ascending == SortedComponents(score_breakdown, FALSE)
        top_negative == SubSeq(ascending, 1, Min(Len(ascending),
                                                 reason_cfg.top_negative_factors))
    IN [key_reasons |->
            [i \in DOMAIN top_positive |->
                [contributed |-> _component_label(top_positive[i]),
                 points |-> score_breakdown[top_positive[i]]]],
        invalidating_factors |->
            [i \in DOMAIN top_negative |->
                [weak |-> _component_label(top_negative[i]),
                 points |-> score_breakdown[top_negative[i]]]]]

\* lines 198-200: the two audit keys, set only when a previous score was given
AuditFields_always(call, uncapped_score) ==
    [previous_score |-> IF "previous_score" \in DOMAIN call
                        THEN call.previous_score ELSE 0,
     score_before_daily_cap |-> uncapped_score]

AuditFields(call, uncapped_score) ==
    IF "previous_score" \in DOMAIN call
    THEN [previous_score |-> call.previous_score,
          score_before_daily_cap |-> uncapped_score]
    ELSE EmptyDict

analyze_stock(call, config) ==
    LET analysis_input == call.analysis_input
        score_breakdown == calculate_score_breakdown(analysis_input, config)
        uncapped_score == calculate_composite_score(score_breakdown, config)
        score == apply_daily_score_change_cap(uncapped_score, call, config)
        target == estimate_target_price(analysis_input.current_price, score, config)
        explanations == build_explanations(score_breakdown, config)
        result == [ticker |-> analysis_input.ticker,
                   mode |-> analysis_input.mode,
                   score |-> score,
                   rating |-> map_score_to_rating(score, config),
                   current_price |-> analysis_input.current_price,
                   target_price |-> target.target_price,
                   expected_return_pct |-> target.expected_return_pct,
                   risk_level |-> classify_risk_level(
                                      analysis_input.scores.risk_volatility, config),
                   key_reasons |-> explanations.key_reasons,
                   invalidating_factors |-> explanations.invalidating_factors]
    IN AuditFields(call, uncapped_score) @@ result

\* the weights of the tests (83 in PRE_EARNINGS mode, 68 in POST_EARNINGS mode)
DefaultWeights ==
    [trend_momentum |-> 25, fundamentals |-> 25, news_sentiment |-> 20,
     earnings_context |-> 15, risk_volatility |-> 15]

\* thresholds under which the documented example rates 68 as BUY
DefaultRatingThresholds == [buy_min |-> 65, hold_min |-> 50]

ThresholdChoices == { [buy_min |-> 70, hold_min |-> 40], DefaultRatingThresholds }

SafetyGuardChoices ==
    { [max_daily_score_change |-> 10,
       manual_overrides |-> [disable_score_change_cap |-> FALSE]],
      [max_daily_score_change |-> 10,
       manual_overrides |-> [disable_score_change_cap |-> TRUE]],
      [max_daily_score_change |-> 0,
       manual_overrides |-> [disable_score_change_cap |-> FALSE]],
      [manual_overrides |-> [disable_score_change_cap |-> FALSE]] }

\* the content of an analysis config file with the given sections
AnalysisConfigFile(weights, thresholds, guards) ==
    [weights |-> weights,
     score_bounds |-> [min |-> 0, max |-> 100],
     rating_thresholds |-> thresholds,
     target_price |-> [neutral_score |-> 50, return_per_score_point |-> 25,
                       min_return_pct |-> -10, max_return_pct |-> 10],
     risk_level_thresholds |-> [low_risk_min |-> 70, medium_risk_min |-> 40],
     reason_generation |-> [top_positive_reasons |-> 2, top_negative_factors |-> 2],
     safety_guards |-> guards]

AnalysisConfigs ==
    { AnalysisConfigFile(DefaultWeights, t, g) :
          t \in ThresholdChoices, g \in SafetyGuardChoices }

DefaultGuards ==
    [max_daily_score_change |-> 10,
     manual_overrides |-> [disable_score_change_cap |-> FALSE]]

\* weights whose total is 90 and 110
BadWeightChoices ==
    { [DefaultWeights EXCEPT !.earnings_context = 5],
      [DefaultWeights EXCEPT !.earnings_context = 25] }

\* thresholds with buy_min not greater than hold_min
InconsistentThresholdChoices ==
    { [buy_min |-> 50, hold_min |-> 50], [buy_min |-> 40, hold_min |-> 60] }

\* a file without the weights section
ConfigFileWithoutWeights ==
    [score_bounds |-> [min |-> 0, max |-> 100],
     rating_thresholds |-> DefaultRatingThresholds]

\* the files load_analysis_config can find at config_path
ConfigFiles ==
    AnalysisConfigs
    \cup { AnalysisConfigFile(w, DefaultRatingThresholds, DefaultGuards) :
               w \in BadWeightChoices }
    \cup { AnalysisConfigFile(DefaultWeights, t, DefaultGuards) :
               t \in InconsistentThresholdChoices }
    \cup { ConfigFileWithoutWeights }

ComponentScoreChoices ==
    [trend_momentum : {-20, 70, 130},
     fundamentals : {70},
     news_sentiment : {70},
     earnings_context_pre : {100},
     earnings_context_post : {0},
     risk_volatility : {30, 70}]

\* the scores of the two mode tests
TestScores ==
    [trend_momentum |-> 80, fundamentals |-> 80, news_sentiment |-> 80,
     earnings_context_pre |-> 100, earnings_context_post |-> 0,
     risk_volatility |-> 80]

AnalysisInputs ==
    [ticker : {"AAPL"}, mode : {"PRE_EARNINGS", "POST_EARNINGS"},
     current_price : {10000}, scores : ComponentScoreChoices \cup {TestScores}]

\* values the earnings score of the other mode could have had instead
EarningsScoreChoices == {0, 50, 100}

\* previous scores a caller can pass, inside and outside the score bounds
PreviousScoreChoices == {-20, 40, 150}

\* the process has started and has not read its config yet
AnalysisInit ==
    /\ config_load = EmptyDict
    /\ analysis_config = EmptyDict
    /\ analysis_call = EmptyDict
    /\ analysis_result = EmptyDict

AnalysisIdle == AnalysisInit

\* config = load_analysis_config(): once, before any analysis; an exception
\* ends the process with no config
LoadAnalysisConfig ==
    /\ config_load = EmptyDict
    /\ \E file \in ConfigFiles :
           LET loaded == load_analysis_config(file)
           IN /\ config_load' = [file |-> file, outcome |-> loaded.outcome]
              /\ analysis_config' = loaded.config
    /\ UNCHANGED <<analysis_call, analysis_result>>

Analyze(call) ==
    /\ config_load # EmptyDict
    /\ config_load.outcome = "loaded"
    /\ analysis_call' = call
    /\ analysis_result' = analyze_stock(call, analysis_config)
    /\ UNCHANGED <<config_load, analysis_config>>

\* analyze_stock(analysis_input, config): no previous score
AnalyzeStock ==
    \E analysis_input \in AnalysisInputs :
        Analyze([analysis_input |-> analysis_input])

\* analyze_stock(analysis_input, config, previous_score) for a score the caller holds
AnalyzeStockWithPrevious ==
    \E analysis_input \in AnalysisInputs, previous_score \in PreviousScoreChoices :
        Analyze([analysis_input |-> analysis_input, previous_score |-> previous_score])

\* the next day's run: the previous score is the final score of the last result
AnalyzeStockNextDay ==
    /\ analysis_result # EmptyDict
    /\ \E analysis_input \in AnalysisInputs :
           Analyze([analysis_input |-> analysis_input,
                    previous_score |-> analysis_result.score])

----------------------------------------------------------------------------
(* Daily sanity evaluation: src/src/sanity_layer.py, evaluate_daily_sanity *)

\* Rows have the fields and units of analyze_stock results: ratings and risk
\* levels are its enum values, prices are in cents, expected_return_pct and
\* the tolerance are in tenths of a percent.  A violation string is a record
\* of its name and the values it prints.

\* HOLD is never expected
_check_rating_alignment_no_hold(row, cfg) ==
    LET thresholds == cfg.rating_thresholds
        expected == IF row.score >= thresholds.buy_min THEN "BUY" ELSE "SELL"
    IN IF row.rating # expected
       THEN << [violation |-> "rating_mismatch", expected |-> expected,
                score |-> row.score, got |-> row.rating] >>
       ELSE <<>>

_check_rating_alignment(row, cfg) ==
    LET thresholds == cfg.rating_thresholds
        expected == IF row.score >= thresholds.buy_min THEN "BUY"
                    ELSE IF row.score >= thresholds.hold_min THEN "HOLD"
                    ELSE "SELL"
    IN IF row.rating # expected
       THEN << [violation |-> "rating_mismatch", expected |-> expected,
                score |-> row.score, got |-> row.rating] >>
       ELSE <<>>

\* only an implied return above the expected one is a mismatch
_check_target_consistency_signed(row, tolerance_pct) ==
    IF row.current_price <= 0
    THEN << [violation |-> "invalid_current_price"] >>
    ELSE IF (row.target_price - row.current_price) * 1000
                - row.expected_return_pct * row.current_price
                > tolerance_pct * row.current_price
    THEN << [violation |-> "target_return_mismatch",
             implied |-> RoundHalfEven((row.target_price - row.current_price) * 10000,
                                       row.current_price),
             expected |-> 10 * row.expected_return_pct] >>
    ELSE <<>>

\* implied_return_pct is ((target - price) * 1000 / price) tenths of a
\* percent; the comparison is multiplied through by the positive price
_check_target_consistency(row, tolerance_pct) ==
    IF row.current_price <= 0
    THEN << [violation |-> "invalid_current_price"] >>
    ELSE IF Abs((row.target_price - row.current_price) * 1000
                    - row.expected_return_pct * row.current_price)
                > tolerance_pct * row.current_price
    THEN << [violation |-> "target_return_mismatch",
             implied |-> RoundHalfEven((row.target_price - row.current_price) * 10000,
                                       row.current_price),
             expected |-> 10 * row.expected_return_pct] >>
    ELSE <<>>

\* lines 64-77: the violations of one row
RowViolations(row, rules_cfg) ==
    _check_rating_alignment(row, rules_cfg)
    \o _check_target_consistency(row, rules_cfg.target_return_tolerance_pct)
    \o (IF row.risk_level = "High" /\ row.rating = "BUY"
        THEN << [violation |-> "high_risk_buy"] >> ELSE <<>>)
    \o (IF row.key_reasons = <<>>
        THEN << [violation |-> "missing_key_reasons"] >> ELSE <<>>)
    \o (IF row.invalidating_factors = <<>>
        THEN << [violation |-> "missing_invalidating_factors"] >> ELSE <<>>)

\* the penalty counts every violation of a stock
StockPenalty_uncapped(violations, health_cfg) ==
    Len(violations) * health_cfg.penalties.per_violation

\* line 79
StockPenalty(violations, health_cfg) ==
    Min(Len(violations), health_cfg.violation_cap) * health_cfg.penalties.per_violation

evaluate_daily_sanity(analysis_results, config) ==
    LET rules_cfg == config.rules
        per_stock ==
            [i \in DOMAIN analysis_results |->
                LET violations == RowViolations(analysis_results[i], rules_cfg)
                IN [ticker |-> analysis_results[i].ticker,
                    violations |-> violations,
                    penalty |-> StockPenalty(violations, config.health_score)]]
        total_penalty == SumSeq([i \in DOMAIN per_stock |-> per_stock[i].penalty])
    IN [health_score |-> Max(0, 100 - total_penalty),
        max_health_score |-> 100,
        total_penalty |-> total_penalty,
        violation_count |->
            SumSeq([i \in DOMAIN per_stock |-> Len(per_stock[i].violations)]),
        per_stock |-> per_stock]

\* score and rating of a result
GradeChoices ==
    { [score |-> 72, rating |-> "BUY"], [score |-> 45, rating |-> "BUY"],
      [score |-> 45, rating |-> "SELL"] }

\* price, target and stated return: implied 10.2% and 30% against a stated
\* 10%, implied -10% against a stated 10%, and a price of zero
PricingChoices ==
    { [current_price |-> 10000, target_price |-> 11020, expected_return_pct |-> 100],
      [current_price |-> 10000, target_price |-> 13000, expected_return_pct |-> 100],
      [current_price |-> 10000, target_price |-> 9000, expected_return_pct |-> 100],
      [current_price |-> 0, target_price |-> 11000, expected_return_pct |-> 100] }

ExplanationChoices ==
    { [risk_level |-> "High",
       key_reasons |-> << [contributed |-> "Fundamentals", points |-> 2000] >>,
       invalidating_factors |-> << [weak |-> "Risk Volatility", points |-> 450] >>],
      [risk_level |-> "Low", key_reasons |-> <<>>, invalidating_factors |-> <<>>] }

\* results of the stock `ticker` as the scan can hand them to the sanity layer
ScannedRows(ticker) ==
    { [ticker |-> ticker] @@ grade @@ pricing @@ explanation :
          grade \in GradeChoices, pricing \in PricingChoices,
          explanation \in ExplanationChoices }

\* config/sanity_rules.json: the sections evaluate_daily_sanity reads
SanityRuleConfigs ==
    { [rules |-> [rating_thresholds |-> [buy_min |-> 65, hold_min |-> 50],
                  target_return_tolerance_pct |-> 5],
       health_score |-> [penalties |-> [per_violation |-> 10], violation_cap |-> 3]],
      [rules |-> [rating_thresholds |-> [buy_min |-> 70, hold_min |-> 40],
                  target_return_tolerance_pct |-> 5],
       health_score |-> [penalties |-> [per_violation |-> 40], violation_cap |-> 2]] }

SanityInit ==
    /\ sanity_config \in SanityRuleConfigs
    /\ guard_call = EmptyDict
    /\ guard_result = EmptyDict
    /\ analyses = <<>>
    /\ daily_sanity_report = EmptyDict

SanityIdle == analyses = <<>> /\ daily_sanity_report = EmptyDict

\* run_daily_scanner, line 67: the result of the next stock is collected
CollectAnalysis ==
    /\ daily_sanity_report = EmptyDict
    /\ Len(analyses) < MaxBatch
    /\ \E row \in ScannedRows(Tickers[Len(analyses) + 1]) :
           analyses' = Append(analyses, row)
    /\ UNCHANGED <<sanity_config, guard_call, guard_result, daily_sanity_report>>

\* run_daily_scanner, line 69
EvaluateDailySanity ==
    /\ daily_sanity_report = EmptyDict
    /\ daily_sanity_report' = evaluate_daily_sanity(analyses, sanity_config)
    /\ UNCHANGED <<sanity_config, guard_call, guard_result, analyses>>

----------------------------------------------------------------------------
(* Performance tracking: src/src/performance_tracker.py *)

\* Timestamps are numbered in the order of their strings.  Returns and
\* benchmarks are whole percents, win_rate_threshold is in hundredths, and
\* the rounded win_rate and avg_return_pct are in ten-thousandths.

MaxOutcomes == 3

\* sorted(records, key=timestamp): stable, equal timestamps keep file order
RECURSIVE SortByTimestamp(_)
SortByTimestamp(records) ==
    IF records = <<>> THEN <<>>
    ELSE LET ordered == SortByTimestamp(SubSeq(records, 1, Len(records) - 1))
             record == records[Len(records)]
             k == Cardinality({i \in DOMAIN ordered :
                                  ordered[i].timestamp <= record.timestamp})
         IN SubSeq(ordered, 1, k) \o <<record>> \o SubSeq(ordered, k + 1, Len(ordered))

\* the first window_size records instead of the last
Windowed_oldest(ordered, window_size) ==
    SubSeq(ordered, 1, Min(Len(ordered), window_size))

\* ordered[-window_size:]
Windowed(ordered, window_size) ==
    IF window_size = 0 THEN ordered
    ELSE SubSeq(ordered, Max(1, Len(ordered) - window_size + 1), Len(ordered))

\* lines 62-91: the metrics of one horizon and the reasons it appends
HorizonResult(windowed, horizon, degradation_cfg) ==
    LET observed == SelectSeq(windowed, LAMBDA item : horizon \in DOMAIN item.returns_pct)
        values == [i \in DOMAIN observed |-> observed[i].returns_pct[horizon]]
        count == Len(values)
        wins == Cardinality({i \in DOMAIN values : values[i] > 0})
        benchmark == degradation_cfg.benchmark_return_by_horizon[horizon]
    IN IF count < degradation_cfg.min_trades_required
       THEN [metrics |-> [trade_count |-> count, win_rate |-> 0, avg_return_pct |-> 0,
                          benchmark_return_pct |-> benchmark],
             reasons |-> <<>>]
       ELSE [metrics |-> [trade_count |-> count,
                          win_rate |-> RoundHalfEven(wins * 10000, count),
                          avg_return_pct |-> RoundHalfEven(SumSeq(values) * 10000, count),
                          benchmark_return_pct |-> benchmark],
             reasons |->
                 (IF wins * 100 < degradation_cfg.win_rate_threshold * count
                  THEN << [horizon |-> horizon, below |-> "win_rate threshold"] >>
                  ELSE <<>>)
                 \o (IF SumSeq(values) < benchmark * count
                     THEN << [horizon |-> horizon, below |-> "avg_return benchmark"] >>
                     ELSE <<>>)]

summarize_strategy_performance(outcomes, config) ==
    LET degradation_cfg == config.degradation
        horizons == config.tracking_horizons
        grouped == { outcomes[i].strategy_id : i \in DOMAIN outcomes }
    IN [strategy_id \in grouped |->
           LET records == SelectSeq(outcomes, LAMBDA r : r.strategy_id = strategy_id)
               windowed == Windowed(SortByTimestamp(records), degradation_cfg.window_size)
               results == [h \in DOMAIN horizons |->
                              HorizonResult(windowed, horizons[h], degradation_cfg)]
               degraded_reasons == Concat([h \in DOMAIN horizons |-> results[h].reasons])
           IN [strategy_id |-> strategy_id,
               metrics |-> [horizon \in { horizons[h] : h \in DOMAIN horizons } |->
                               LET h == CHOOSE h \in DOMAIN horizons :
                                            horizons[h] = horizon
                               IN results[h].metrics],
               degraded |-> Len(degraded_reasons) > 0,
               degraded_reasons |-> degraded_reasons]]

\* OutcomeRecords of the file: two strategies, wins, losses, a missing horizon
OutcomeRecords ==
    [strategy_id : {"fundamentals", "news_sentiment"},
     timestamp : {1, 2},
     returns_pct : { [h \in {"1d", "5d"} |-> 2], [h \in {"1d", "5d"} |-> -2],
                     [h \in {"1d"} |-> 2] }]

\* an evolution config with its tracking and degradation sections
TrackingConfigs ==
    { [tracking_horizons |-> <<"1d", "5d">>,
       degradation |-> [window_size |-> 2, min_trades_required |-> 2,
                        win_rate_threshold |-> 60,
                        benchmark_return_by_horizon |-> [h \in {"1d", "5d"} |->
                                                            IF h = "1d" THEN 0 ELSE 1]]]
      @@ cfg : cfg \in { c \in EvolutionConfigs :
                            /\ c.step_pct = 5
                            /\ c.cooldown_days = 0 } }

PerformanceInit ==
    /\ evolution_config \in TrackingConfigs
    /\ current_weights \in WeightChoices
    /\ evolution_state = EmptyDict
    /\ evolution_report = EmptyDict
    /\ evolution_run = EmptyDict
    /\ outcomes_file = <<>>
    /\ performance_run = EmptyDict

PerformanceIdle == outcomes_file = <<>> /\ performance_run = EmptyDict

\* a realized outcome is appended to the file before the run reads it
RecordOutcome ==
    /\ performance_run = EmptyDict
    /\ Len(outcomes_file) < MaxOutcomes
    /\ \E record \in OutcomeRecords : outcomes_file' = Append(outcomes_file, record)
    /\ UNCHANGED <<evolution_vars, performance_run>>

\* run_strategy_evolution, lines 174-187, with no cooldown and no override
SummarizeAndEvolve ==
    /\ performance_run = EmptyDict
    /\ LET performance_summary ==
               summarize_strategy_performance(outcomes_file, evolution_config)
           evolved == evolve_weights(current_weights, performance_summary,
                                     evolution_config)
       IN performance_run' = [performance_summary |-> performance_summary,
                              new_weights |-> evolved.new_weights,
                              changes |-> evolved.changes]
    /\ UNCHANGED <<evolution_vars, outcomes_file>>

----------------------------------------------------------------------------
(* Manual analysis endpoint: src/src/manual_api.py.  A request payload is a *)
(* dict of JSON values; a JSON value is a record tagged with its type.  A   *)
(* number is held in the unit of its field (scores in points, prices in     *)
(* cents).                                                                  *)

MaxRequests == 2

JsonNumber(value) == [type |-> "number", value |-> value]
JsonString(text) == [type |-> "string", text |-> text]
JsonBoolean(truth) == [type |-> "boolean", truth |-> truth]
JsonObject(members) == [type |-> "object", members |-> members]
JsonNull == [type |-> "null"]
\* an integer literal beyond the range of a float, such as 1 followed by 400 zeros
JsonHugeInteger == [type |-> "number", beyond_float |-> TRUE]

\* payload.get(key): None for a missing key and for a JSON null
Get(members, key) == IF key \in DOMAIN members THEN members[key] ELSE JsonNull

\* the decimal strings among those of the model
NumericText == [t \in {"80"} |-> 80]

\* float(value): the float, in units of `one`, or the exception raised
_float(value, one) ==
    IF value.type = "number"
    THEN IF "beyond_float" \in DOMAIN value THEN [raised |-> "OverflowError"]
         ELSE [value |-> value.value]
    ELSE IF value.type = "boolean" THEN [value |-> IF value.truth THEN one ELSE 0]
    ELSE IF value.type = "string"
    THEN IF value.text \in DOMAIN NumericText
         THEN [value |-> one * NumericText[value.text]]
         ELSE [raised |-> "ValueError"]
    ELSE [raised |-> "TypeError"]

\* str.strip and str.upper over the strings of the model
strip(text) == IF text = "  " THEN "" ELSE text
upper(text) == IF text = "aapl" THEN "AAPL" ELSE text

\* isinstance(value, str) and a non-empty value.strip()
IsNonEmptyString(value) == value.type = "string" /\ strip(value.text) # ""

_error(message) == [status |-> 400, body |-> [error |-> message]]

_validate_mode(payload) ==
    LET mode == Get(payload, "mode")
    IN IF mode \notin {JsonString("PRE_EARNINGS"), JsonString("POST_EARNINGS")}
       THEN [error |-> _error("mode must be PRE_EARNINGS or POST_EARNINGS")]
       ELSE [value |-> mode.text]

_validate_strategy(payload) ==
    LET strategy == Get(payload, "strategy_parameters")
        field(key) == Get(strategy.members, key)
    IN IF strategy.type # "object"
       THEN [error |-> _error("strategy_parameters must be an object")]
       ELSE IF field("risk_tolerance")
                   \notin {JsonString("low"), JsonString("medium"), JsonString("high")}
       THEN [error |-> _error("strategy_parameters.risk_tolerance must be low, medium, or high")]
       ELSE IF field("time_horizon")
                   \notin {JsonString("short"), JsonString("swing"), JsonString("long")}
       THEN [error |-> _error("strategy_parameters.time_horizon must be short, swing, or long")]
       ELSE IF ~IsNonEmptyString(field("expected_profit_target"))
       THEN [error |-> _error("strategy_parameters.expected_profit_target must be a non-empty string")]
       ELSE [value |-> [risk_tolerance |-> field("risk_tolerance").text,
                        time_horizon |-> field("time_horizon").text,
                        expected_profit_target |->
                            strip(field("expected_profit_target").text)]]

\* an exception other than TypeError and ValueError leaves the function
_validate_component_scores(payload) ==
    LET scores == Get(payload, "component_scores")
        required == {"trend_momentum", "fundamentals", "news_sentiment",
                     "earnings_context_pre", "earnings_context_post", "risk_volatility"}
        floats == [field \in required |-> _float(scores.members[field], 1)]
        raised == {floats[field].raised :
                      field \in {f \in required : "raised" \in DOMAIN floats[f]}}
    IN IF scores.type # "object"
       THEN [error |-> _error("component_scores must be an object")]
       ELSE IF \E field \in required : field \notin DOMAIN scores.members
       THEN [error |-> _error("component_scores missing fields")]
       ELSE IF raised \cap {"TypeError", "ValueError"} # {}
       THEN [error |-> _error("component_scores values must be numeric")]
       ELSE IF raised # {} THEN [raised |-> "OverflowError"]
       ELSE [value |-> [field \in required |-> floats[field].value]]

_resolve_current_price(payload) ==
    LET price_value == IF "current_price_override" \in DOMAIN payload
                       THEN payload["current_price_override"]
                       ELSE Get(payload, "current_price")
        price == _float(price_value, 100)
    IN IF price_value = JsonNull
       THEN [error |-> _error("current_price_override or current_price is required")]
       ELSE IF "raised" \in DOMAIN price
       THEN IF price.raised \in {"TypeError", "ValueError"}
            THEN [error |-> _error("current_price_override/current_price must be numeric")]
            ELSE [raised |-> price.raised]
       ELSE IF price.value <= 0
       THEN [error |-> _error("current_price_override/current_price must be > 0")]
       ELSE [value |-> price.value]

\* the (analysis_input, strategy, error) triple, or the exception raised
validate_manual_request(payload) ==
    LET ticker == Get(payload, "ticker")
        mode == _validate_mode(payload)
        strategy == _validate_strategy(payload)
        component_scores == _validate_component_scores(payload)
        current_price == _resolve_current_price(payload)
    IN IF ~IsNonEmptyString(ticker)
       THEN [error |-> _error("ticker must be a non-empty string")]
       ELSE IF "value" \notin DOMAIN mode THEN mode
       ELSE IF "value" \notin DOMAIN strategy THEN strategy
       ELSE IF "value" \notin DOMAIN component_scores THEN component_scores
       ELSE IF "value" \notin DOMAIN current_price THEN current_price
       ELSE [analysis_input |-> [ticker |-> upper(strip(ticker.text)),
                                 mode |-> mode.value,
                                 current_price |-> current_price.value,
                                 scores |-> component_scores.value],
             strategy |-> strategy.value]

\* lines 151-161, after validate_manual_request has returned
ManualResponse(validated, config) ==
    IF "raised" \in DOMAIN validated THEN validated
    ELSE IF "error" \in DOMAIN validated THEN validated.error
    ELSE [status |-> 200,
          body |-> [strategy_parameters |-> validated.strategy]
                       @@ analyze_stock([analysis_input |-> validated.analysis_input],
                                        config)]

handle_manual_analysis(payload, config) ==
    ManualResponse(validate_manual_request(payload), config)

\* a well-formed request
BasePayload ==
    [ticker |-> JsonString("aapl"),
     mode |-> JsonString("PRE_EARNINGS"),
     strategy_parameters |->
         JsonObject([risk_tolerance |-> JsonString("low"),
                     time_horizon |-> JsonString("swing"),
                     expected_profit_target |-> JsonString("10%")]),
     component_scores |->
         JsonObject([field \in DOMAIN TestScores |-> JsonNumber(TestScores[field])]),
     current_price |-> JsonNumber(10000)]

Without(payload, key) == [k \in DOMAIN payload \ {key} |-> payload[k]]

WithScore(payload, value) ==
    [payload EXCEPT !.component_scores.members.trend_momentum = value]

\* the payloads of the requests: the well-formed one and its variants with
\* one field missing, malformed or of another JSON type
ManualPayloads ==
    { BasePayload,
      [BasePayload EXCEPT !.mode = JsonString("POST_EARNINGS")],
      ("current_price_override" :> JsonNumber(5000)) @@ BasePayload,
      Without(BasePayload, "ticker"),
      [BasePayload EXCEPT !.ticker = JsonString("  ")],
      [BasePayload EXCEPT !.mode = JsonString("pre_earnings")],
      Without(BasePayload, "strategy_parameters"),
      [BasePayload EXCEPT !.strategy_parameters.members.risk_tolerance =
                              JsonString("extreme")],
      [BasePayload EXCEPT !.component_scores =
                              JsonObject(Without(@.members, "risk_volatility"))],
      WithScore(BasePayload, JsonString("high")),
      WithScore(BasePayload, JsonBoolean(TRUE)),
      WithScore(BasePayload, JsonHugeInteger),
      Without(BasePayload, "current_price"),
      [BasePayload EXCEPT !.current_price = JsonNumber(0)],
      [BasePayload EXCEPT !.current_price = JsonString("abc")] }

\* run_manual_analysis_api: the config is loaded and published to the handler
\* class before the server accepts a request
ManualConfigs ==
    { load_analysis_config(file).config :
          file \in {AnalysisConfigFile(DefaultWeights, DefaultRatingThresholds,
                                       DefaultGuards)} }

ManualInit ==
    /\ handler_config \in ManualConfigs
    /\ manual_requests = <<>>

ManualIdle == handler_config = EmptyDict /\ manual_requests = <<>>

\* the slot of manual_requests holding the locals of the thread of a request
RequestSlot_shared(request) == 1

RequestSlot(request) == request

\* ThreadingHTTPServer starts a thread per request; do_POST has read the body
ReceiveRequest ==
    /\ Len(manual_requests) < MaxRequests
    /\ \E payload \in ManualPayloads :
           manual_requests' = Append(manual_requests,
                                     [payload |-> payload, stage |-> "received"])
    /\ UNCHANGED handler_config

\* the thread of a request runs validate_manual_request on its payload
ValidateRequest ==
    \E request \in DOMAIN manual_requests :
        /\ manual_requests[request].stage = "received"
        /\ LET validated == validate_manual_request(manual_requests[request].payload)
               slot == RequestSlot(request)
               stored == [manual_requests EXCEPT
                              ![slot] = ("validated" :> validated) @@ @]
           IN manual_requests' = [stored EXCEPT ![request].stage = "validated"]
        /\ UNCHANGED handler_config

\* the thread analyses what it validated under the shared config and writes
\* the response, or ends with the exception
RespondRequest ==
    \E request \in DOMAIN manual_requests :
        /\ manual_requests[request].stage = "validated"
        /\ LET locals == manual_requests[RequestSlot(request)]
               response == ManualResponse(locals.validated, handler_config)
           IN manual_requests' =
                  [manual_requests EXCEPT
                       ![request] = ("response" :> response)
                                        @@ [@ EXCEPT !.stage = "responded"]]
        /\ UNCHANGED handler_config

----------------------------------------------------------------------------
(* Daily scanner run: src/scripts/run_daily_scanner.py, main.  The stocks of *)
(* the scanner payload are dicts of JSON values.                            *)

\* a stock entry of the scanner payload
ScannerStock(ticker, scores, current_price) ==
    [ticker |-> JsonString(ticker),
     mode |-> JsonString("PRE_EARNINGS"),
     current_price |-> JsonNumber(current_price),
     scores |-> JsonObject([field \in DOMAIN scores |-> JsonNumber(scores[field])])]

\* component scores of a low-risk BUY, a high-risk BUY and a SELL
DailyScoreChoices ==
    { TestScores,
      [TestScores EXCEPT !.risk_volatility = 30],
      [TestScores EXCEPT !.trend_momentum = 20, !.fundamentals = 20,
                         !.news_sentiment = 20, !.earnings_context_pre = 20] }

\* the entries a payload can hold for a ticker: well-formed ones, and one
\* without its price, one with a string for a score and one with a negative
\* price
StockChoices(ticker) ==
    LET base == ScannerStock(ticker, TestScores, 10000)
    IN { ScannerStock(ticker, scores, 10000) : scores \in DailyScoreChoices }
       \cup { Without(base, "current_price"),
              [base EXCEPT !.scores.members.trend_momentum = JsonString("high")],
              [base EXCEPT !.current_price = JsonNumber(-500)] }

\* lines 59-67 up to the call of analyze_stock: the AnalysisInput built from a
\* stock entry, or the exception that leaves the loop and main
ScanInput(stock) ==
    LET required == {"trend_momentum", "fundamentals", "news_sentiment",
                     "earnings_context_pre", "earnings_context_post", "risk_volatility"}
        price == _float(stock["current_price"], 100)
        scores == stock["scores"].members
    IN IF {"ticker", "mode", "current_price", "scores"} \ DOMAIN stock # {}
       THEN [raised |-> "KeyError"]
       ELSE IF "raised" \in DOMAIN price THEN price
       ELSE IF DOMAIN scores # required THEN [raised |-> "TypeError"]
       ELSE IF \E field \in required : scores[field].type # "number"
       THEN [raised |-> "TypeError"]
       ELSE [analysis_input |-> [ticker |-> stock["ticker"].text,
                                 mode |-> stock["mode"].text,
                                 current_price |-> price.value,
                                 scores |-> [field \in required |->
                                                scores[field].value]]]

\* config/sanity_rules.json: the rules with the thresholds of the scoring
\* config, and behavior_controls.block_buy_below_health_score held flat
DailySanityConfigs ==
    { [rules |-> [rating_thresholds |-> DefaultRatingThresholds,
                  target_return_tolerance_pct |-> 5],
       health_score |-> [penalties |-> [per_violation |-> 10], violation_cap |-> 3],
       block_buy_below_health_score |-> threshold] : threshold \in {50, 100} }

\* the snapshot recomputed from the batch the guard returned
DailySnapshot_from_adjusted(analysis_results, sanity_report) ==
    LET recomputed == evaluate_daily_sanity(analysis_results, sanity_config)
    IN [health_score |-> recomputed.health_score,
        violation_count |-> recomputed.violation_count,
        stock_count |-> Len(analysis_results),
        violations_by_ticker |->
            [i \in DOMAIN recomputed.per_stock |->
                [ticker |-> recomputed.per_stock[i].ticker,
                 violations |-> recomputed.per_stock[i].violations]]]

\* update_health_history, lines 149-161: what the entry takes from its arguments
DailySnapshot(analysis_results, sanity_report) ==
    [health_score |-> sanity_report.health_score,
     violation_count |-> sanity_report.violation_count,
     stock_count |-> Len(analysis_results),
     violations_by_ticker |->
         [i \in DOMAIN sanity_report.per_stock |->
             [ticker |-> sanity_report.per_stock[i].ticker,
              violations |-> sanity_report.per_stock[i].violations]]]

\* lines 47-56: payload and configs are read, nothing is analysed yet
DailyInit ==
    /\ daily_run = [stage |-> "scanning", scanned |-> <<>>, scored |-> <<>>]
    /\ config_load = EmptyDict
    /\ analysis_config =
           load_analysis_config(AnalysisConfigFile(DefaultWeights,
                                                   DefaultRatingThresholds,
                                                   DefaultGuards)).config
    /\ analysis_call = EmptyDict
    /\ analysis_result = EmptyDict
    /\ sanity_config \in DailySanityConfigs
    /\ guard_call = EmptyDict
    /\ guard_result = EmptyDict
    /\ analyses = <<>>
    /\ daily_sanity_report = EmptyDict
    /\ HistoryInit

DailyIdle == daily_run = EmptyDict

\* lines 58-67: one iteration of the loop over the stocks; an exception ends
\* the run
ScanStock ==
    /\ daily_run.stage = "scanning"
    /\ Len(daily_run.scanned) < MaxBatch
    /\ \E stock \in StockChoices(Tickers[Len(daily_run.scanned) + 1]),
          previous \in {EmptyDict, [previous_score |-> 40]} :
           LET input == ScanInput(stock)
               scanned == Append(daily_run.scanned, stock)
           IN IF "raised" \in DOMAIN input
              THEN /\ daily_run' = [daily_run EXCEPT !.stage = "raised",
                                                     !.scanned = scanned]
                   /\ UNCHANGED analyses
              ELSE LET result == analyze_stock(
                                     [analysis_input |-> input.analysis_input]
                                         @@ previous, analysis_config)
                   IN /\ daily_run' = [daily_run EXCEPT
                                           !.scanned = scanned,
                                           !.scored = Append(@, result)]
                      /\ analyses' = Append(analyses, result)
    /\ UNCHANGED <<config_load, analysis_config, analysis_call, analysis_result,
                   sanity_config, guard_call, guard_result, daily_sanity_report,
                   history_vars>>

\* line 69
DailyEvaluate ==
    /\ daily_run.stage = "scanning"
    /\ daily_sanity_report' = evaluate_daily_sanity(analyses, sanity_config)
    /\ daily_run' = [daily_run EXCEPT !.stage = "evaluated"]
    /\ UNCHANGED <<analysis_vars, sanity_config, guard_call, guard_result, analyses,
                   history_vars>>

\* line 70: analyses is rebound to the batch the guard returns
DailyGuard ==
    /\ daily_run.stage = "evaluated"
    /\ guard_call' = [analysis_results |-> analyses,
                      sanity_report |-> daily_sanity_report]
    /\ guard_result' = apply_health_controls(analyses, daily_sanity_report,
                                             sanity_config)
    /\ analyses' = guard_result'.adjusted
    /\ daily_run' = [daily_run EXCEPT !.stage = "guarded"]
    /\ UNCHANGED <<analysis_vars, sanity_config, daily_sanity_report, history_vars>>

\* lines 71-75
DailyStore ==
    /\ daily_run.stage = "guarded"
    /\ \E report_date \in ReportDates :
           /\ update_health_history(report_date,
                                    DailySnapshot(analyses, daily_sanity_report))
           /\ health_trend' = compute_health_trend(health_history')
    /\ daily_run' = [daily_run EXCEPT !.stage = "stored"]
    /\ UNCHANGED <<analysis_vars, guard_vars, sanity_vars>>

----------------------------------------------------------------------------
(* Specification of the evolution cycle *)

InitEvolution ==
    /\ EvolutionInit
    /\ HistoryIdle
    /\ GuardIdle
    /\ SanityIdle
    /\ AnalysisIdle
    /\ ManualIdle
    /\ DailyIdle
    /\ PerformanceIdle

NextEvolution ==
    RunStrategyEvolution
    /\ UNCHANGED <<history_vars, guard_vars, sanity_vars, analysis_vars,
                    performance_vars, manual_vars, daily_run>>

SpecEvolution == InitEvolution /\ [][NextEvolution]_vars

InitHistory ==
    /\ EvolutionIdle
    /\ HistoryInit
    /\ GuardIdle
    /\ SanityIdle
    /\ AnalysisIdle
    /\ ManualIdle
    /\ DailyIdle
    /\ PerformanceIdle

NextHistory ==
    UpdateHealthHistory
    /\ UNCHANGED <<evolution_vars, guard_vars, sanity_vars, analysis_vars,
                    performance_vars, manual_vars, daily_run>>

SpecHistory == InitHistory /\ [][NextHistory]_vars

InitGuard ==
    /\ EvolutionIdle
    /\ HistoryIdle
    /\ GuardInit
    /\ SanityIdle
    /\ AnalysisIdle
    /\ ManualIdle
    /\ DailyIdle
    /\ PerformanceIdle

NextGuard ==
    ApplyHealthControls
    /\ UNCHANGED <<evolution_vars, history_vars, sanity_vars, analysis_vars,
                    performance_vars, manual_vars, daily_run>>

SpecGuard == InitGuard /\ [][NextGuard]_vars

InitSanity ==
    /\ EvolutionIdle
    /\ HistoryIdle
    /\ SanityInit
    /\ AnalysisIdle
    /\ PerformanceIdle
    /\ ManualIdle
    /\ DailyIdle

NextSanity ==
    /\ \/ CollectAnalysis
       \/ EvaluateDailySanity
    /\ UNCHANGED <<evolution_vars, history_vars, analysis_vars, performance_vars,
                   manual_vars, daily_run>>

SpecSanity == InitSanity /\ [][NextSanity]_vars

InitAnalysis ==
    /\ EvolutionIdle
    /\ HistoryIdle
    /\ GuardIdle
    /\ SanityIdle
    /\ AnalysisInit
    /\ ManualIdle
    /\ DailyIdle
    /\ PerformanceIdle

NextAnalysis ==
    /\ \/ LoadAnalysisConfig
       \/ AnalyzeStock
       \/ AnalyzeStockWithPrevious
       \/ AnalyzeStockNextDay
    /\ UNCHANGED <<evolution_vars, history_vars, guard_vars, sanity_vars,
                   performance_vars, manual_vars, daily_run>>

SpecAnalysis == InitAnalysis /\ [][NextAnalysis]_vars

InitPerformance ==
    /\ PerformanceInit
    /\ HistoryIdle
    /\ GuardIdle
    /\ SanityIdle
    /\ AnalysisIdle
    /\ ManualIdle
    /\ DailyIdle

NextPerformance ==
    /\ \/ RecordOutcome
       \/ SummarizeAndEvolve
    /\ UNCHANGED <<history_vars, guard_vars, sanity_vars, analysis_vars,
                   manual_vars, daily_run>>

SpecPerformance == InitPerformance /\ [][NextPerformance]_vars

InitManual ==
    /\ ManualInit
    /\ EvolutionIdle
    /\ HistoryIdle
    /\ GuardIdle
    /\ SanityIdle
    /\ AnalysisIdle
    /\ PerformanceIdle
    /\ DailyIdle

NextManual ==
    /\ \/ ReceiveRequest
       \/ ValidateRequest
       \/ RespondRequest
    /\ UNCHANGED <<evolution_vars, history_vars, guard_vars, sanity_vars,
                   analysis_vars, performance_vars, daily_run>>

SpecManual == InitManual /\ [][NextManual]_vars

InitDaily == DailyInit /\ EvolutionIdle /\ PerformanceIdle /\ ManualIdle

NextDaily ==
    /\ \/ ScanStock
       \/ DailyEvaluate
       \/ DailyGuard
       \/ DailyStore
    /\ UNCHANGED <<evolution_vars, performance_vars, manual_vars>>

SpecDaily == InitDaily /\ [][NextDaily]_vars

----------------------------------------------------------------------------
(* Properties of the evolution cycle *)

Ran == evolution_run # EmptyDict

\* sum of |new_weight - old_weight| over the applied WeightChange records
CumulativeShift(changes) ==
    SumSeq([i \in 1..Len(changes) |->
               Abs(changes[i].new_weight - changes[i].old_weight)])

\* C1: the weights returned by a run sum to exactly 100, whatever steps were
\* applied (the old weights sum to 100).
C1_WeightsSumTo100 ==
    Ran => SumValues(evolution_report.new_weights) = 100

\* C2: the cumulative absolute shift of the applied changes of one run never
\* exceeds max_total_adjustment_pct.
C2_ShiftWithinMaxTotal ==
    Ran => CumulativeShift(evolution_report.applied_changes)
               <= evolution_config.max_total_adjustment_pct

\* C3: a run under an active cooldown or with weight updates disabled returns
\* the old weights, no applied change, and leaves the persisted state as read.
C3_BlockedRunPassesThrough ==
    (Ran /\ (evolution_report.cooldown_active
             \/ evolution_config.disable_weight_updates))
    => /\ evolution_report.new_weights = evolution_report.old_weights
       /\ evolution_report.applied_changes = <<>>
       /\ evolution_state = evolution_run.state

C3_Witness ==
    /\ Ran
    /\ evolution_report.cooldown_active
    /\ evolution_report.what_failed # <<>>
    /\ "last_weight_update_date" \in DOMAIN evolution_state
    /\ evolution_state["last_weight_update_date"] # evolution_run.current_date

\* C4: with cooldown_days > 0 and no cooldown override, a run that applies
\* changes after an earlier update is at least cooldown_days days later than
\* it, so the persisted date moves forward.
C4_AppliedRunsCooldownApart ==
    (/\ Ran
     /\ evolution_config.cooldown_days > 0
     /\ ~evolution_config.disable_evolution_cooldown
     /\ evolution_report.applied_changes # <<>>
     /\ "last_weight_update_date" \in DOMAIN evolution_run.state)
    => LET last == fromisoformat(evolution_run.state["last_weight_update_date"])
           now == fromisoformat(evolution_run.current_date)
       IN /\ now - last >= evolution_config.cooldown_days
          /\ fromisoformat(evolution_state["last_weight_update_date"]) > last

C4_Witness ==
    /\ Ran
    /\ evolution_config.cooldown_days > 0
    /\ ~evolution_config.disable_evolution_cooldown
    /\ evolution_report.applied_changes # <<>>
    /\ "last_weight_update_date" \in DOMAIN evolution_run.state
    /\ evolution_state # evolution_run.state

\* C5: the persisted state is written exactly when the run applied a change,
\* and then holds the run's current_date; otherwise it is as the run read it.
C5_StateWrittenIffChanged ==
    Ran => IF evolution_report.applied_changes # <<>>
           THEN evolution_state =
                    [last_weight_update_date |-> evolution_run.current_date]
           ELSE evolution_state = evolution_run.state

C5_Witness ==
    /\ Ran
    /\ evolution_report.applied_changes # <<>>
    /\ evolution_run.state # EmptyDict
    /\ evolution_state # evolution_run.state
    /\ evolution_state["last_weight_update_date"] = evolution_run.current_date

\* the run called evolve_weights
Evolved ==
    /\ Ran
    /\ ~evolution_report.cooldown_active
    /\ ~evolution_config.disable_weight_updates

\* the strategies evolve_weights classifies as degraded or outperforming
Classified ==
    DOMAIN evolution_config.strategy_to_weight_key
        \cap DOMAIN evolution_report.performance_details

ChangesOf(strategy_id) ==
    { k \in DOMAIN evolution_report.applied_changes :
          evolution_report.applied_changes[k].strategy_id = strategy_id }

\* the loop reaches a strategy while the shift of the changes recorded for
\* the strategies sorted before it is below max_total_adjustment_pct
Reached(strategy_id) ==
    LET changes == evolution_report.applied_changes
        earlier == SelectSeq(changes, LAMBDA c :
                                 KeyIndex(c.strategy_id) < KeyIndex(strategy_id))
    IN CumulativeShift(earlier) < evolution_config.max_total_adjustment_pct

OldWeight(strategy_id) ==
    evolution_report.old_weights[evolution_config.strategy_to_weight_key[strategy_id]]

ReturnedWeight(strategy_id) ==
    evolution_report.new_weights[evolution_config.strategy_to_weight_key[strategy_id]]

\* the old weight one step down, floored, or one step up, capped
SteppedWeight(strategy_id) ==
    IF evolution_report.performance_details[strategy_id].degraded
    THEN LET down == OldWeight(strategy_id) - evolution_config.step_pct
         IN IF down < evolution_config.min_weight
            THEN evolution_config.min_weight ELSE down
    ELSE LET up == OldWeight(strategy_id) + evolution_config.step_pct
         IN IF up > evolution_config.max_weight
            THEN evolution_config.max_weight ELSE up

\* C15: for every classified strategy reached before the early stop the
\* returned weight is max(min_weight, old - step_pct) if it is degraded and
\* min(max_weight, old + step_pct) if not, so a degraded strategy's weight
\* does not end higher than it started and the weight is within
\* [min_weight, max_weight].
C15_ReturnedWeightIsStepped ==
    Evolved =>
        \A strategy_id \in Classified :
            Reached(strategy_id) =>
                /\ ReturnedWeight(strategy_id) = SteppedWeight(strategy_id)
                /\ evolution_report.performance_details[strategy_id].degraded
                       => ReturnedWeight(strategy_id) <= OldWeight(strategy_id)
                /\ ReturnedWeight(strategy_id) >= evolution_config.min_weight
                /\ ReturnedWeight(strategy_id) <= evolution_config.max_weight

\* C15, amended: for every classified strategy reached before the early
\* stop (one strategy per weight key, old weights within [min_weight,
\* max_weight]) a WeightChange is recorded exactly when the stepped weight
\* differs from the old one, from the old weight to the stepped weight, which
\* is within [min_weight, max_weight]; a strategy not reached has no
\* WeightChange; the returned weight is at least the stepped weight, the
\* normalization adding to it what the total is short of 100.
C15_ChangeIsSteppedWeight ==
    Evolved =>
        \A strategy_id \in Classified :
            LET changes == evolution_report.applied_changes
                stepped == SteppedWeight(strategy_id)
            IN IF Reached(strategy_id)
               THEN /\ (ChangesOf(strategy_id) # {})
                           <=> (stepped # OldWeight(strategy_id))
                    /\ \A k \in ChangesOf(strategy_id) :
                           /\ changes[k].old_weight = OldWeight(strategy_id)
                           /\ changes[k].new_weight = stepped
                    /\ stepped >= evolution_config.min_weight
                    /\ stepped <= evolution_config.max_weight
                    /\ ReturnedWeight(strategy_id) >= stepped
               ELSE /\ ChangesOf(strategy_id) = {}
                    /\ ReturnedWeight(strategy_id) >= OldWeight(strategy_id)

C15_Witness ==
    /\ Evolved
    /\ \E strategy_id \in Classified :
           /\ evolution_report.performance_details[strategy_id].degraded
           /\ Reached(strategy_id)
           /\ ChangesOf(strategy_id) # {}
           /\ SteppedWeight(strategy_id) = evolution_config.min_weight
           /\ ReturnedWeight(strategy_id) > SteppedWeight(strategy_id)

\* C18: after evolve_weights every weight key's returned weight is within
\* max_total_adjustment_pct of its input weight.
C18_KeyChangeWithinMaxTotal ==
    Evolved =>
        \A weight_key \in DOMAIN evolution_report.old_weights :
            Abs(evolution_report.new_weights[weight_key]
                    - evolution_report.old_weights[weight_key])
                <= evolution_config.max_total_adjustment_pct

\* a classified strategy whose step would move its weight
Eligible(strategy_id) ==
    /\ strategy_id \in Classified
    /\ SteppedWeight(strategy_id) # OldWeight(strategy_id)

\* C24: evolve_weights visits the strategies in ascending id order and
\* adjusts none once the cumulative shift has reached
\* max_total_adjustment_pct: the changes are recorded in ascending id order,
\* each at a cumulative shift below the maximum, and every adjusted strategy
\* precedes every eligible strategy that was skipped.
C24_AscendingOrderEarlyStop ==
    Evolved =>
        LET changes == evolution_report.applied_changes
        IN /\ \A i, j \in 1..Len(changes) :
                  i < j => KeyIndex(changes[i].strategy_id)
                               < KeyIndex(changes[j].strategy_id)
           /\ \A k \in 1..Len(changes) :
                  CumulativeShift(SubSeq(changes, 1, k - 1))
                      < evolution_config.max_total_adjustment_pct
           /\ \A skipped \in DOMAIN evolution_config.strategy_to_weight_key :
                  Eligible(skipped) /\ ChangesOf(skipped) = {} =>
                      /\ CumulativeShift(changes)
                             >= evolution_config.max_total_adjustment_pct
                      /\ \A k \in 1..Len(changes) :
                             KeyIndex(changes[k].strategy_id) < KeyIndex(skipped)

\* two strategies were adjusted and an eligible third one was skipped
C24_Witness ==
    /\ Evolved
    /\ Len(evolution_report.applied_changes) = 2
    /\ \E skipped \in DOMAIN evolution_config.strategy_to_weight_key :
           Eligible(skipped) /\ ChangesOf(skipped) = {}

\* C29: each WeightChange's old_weight is old_weights[weight_key], the final
\* new_weights[weight_key] is the new_weight of the last change for the key,
\* so a run with changes returns new_weights different from old_weights, and
\* a key with no WeightChange has the same weight in old and new.
C29_ReportSelfConsistent ==
    Ran =>
        LET changes == evolution_report.applied_changes
            old_weights == evolution_report.old_weights
            new_weights == evolution_report.new_weights
            changed == {changes[k].weight_key : k \in 1..Len(changes)}
        IN /\ \A k \in 1..Len(changes) :
                  /\ changes[k].old_weight = old_weights[changes[k].weight_key]
                  /\ new_weights[changes[k].weight_key] = changes[k].new_weight
           /\ changes # <<>> => new_weights # old_weights
           /\ \A weight_key \in DOMAIN old_weights \ changed :
                  new_weights[weight_key] = old_weights[weight_key]

\* C29, amended: each WeightChange's old_weight is old_weights[weight_key]
\* (one strategy per weight key) and differs from its new_weight; the final
\* new_weights[weight_key] is at least that new_weight, and a key with no
\* WeightChange has a weight at least its old one, the normalization adding
\* what the total is short of 100; a run with no change returns the old
\* weights.
C29_ReportConsistentUpToNormalization ==
    Ran =>
        LET changes == evolution_report.applied_changes
            old_weights == evolution_report.old_weights
            new_weights == evolution_report.new_weights
            changed == {changes[k].weight_key : k \in 1..Len(changes)}
        IN /\ \A k \in 1..Len(changes) :
                  /\ changes[k].old_weight = old_weights[changes[k].weight_key]
                  /\ changes[k].new_weight # changes[k].old_weight
                  /\ new_weights[changes[k].weight_key] >= changes[k].new_weight
           /\ \A weight_key \in DOMAIN old_weights \ changed :
                  new_weights[weight_key] >= old_weights[weight_key]
           /\ changes = <<>> => new_weights = old_weights

\* a step down whose key and an unchanged key both gain from normalization
C29_Witness ==
    /\ Evolved
    /\ \E k \in 1..Len(evolution_report.applied_changes) :
           LET change == evolution_report.applied_changes[k]
           IN /\ change.new_weight < change.old_weight
              /\ evolution_report.new_weights[change.weight_key] > change.new_weight
    /\ \E weight_key \in DOMAIN evolution_report.old_weights :
           /\ \A k \in 1..Len(evolution_report.applied_changes) :
                  evolution_report.applied_changes[k].weight_key # weight_key
           /\ evolution_report.new_weights[weight_key]
                  > evolution_report.old_weights[weight_key]

----------------------------------------------------------------------------
(* Properties of performance tracking *)

Summarized == performance_run # EmptyDict

\* positions in the file of the records of a strategy
RecordsOf(strategy_id) ==
    { i \in DOMAIN outcomes_file : outcomes_file[i].strategy_id = strategy_id }

\* the window_size records of a strategy that are latest by timestamp,
\* records of one timestamp counted in file order
WindowOf(strategy_id) ==
    LET mine == RecordsOf(strategy_id)
        later(i) == { j \in mine :
                        \/ outcomes_file[j].timestamp > outcomes_file[i].timestamp
                        \/ /\ outcomes_file[j].timestamp = outcomes_file[i].timestamp
                           /\ j > i }
    IN { i \in mine : Cardinality(later(i)) < evolution_config.degradation.window_size }

Observations(strategy_id, horizon) ==
    { i \in WindowOf(strategy_id) : horizon \in DOMAIN outcomes_file[i].returns_pct }

TrackedHorizons ==
    { evolution_config.tracking_horizons[h] :
          h \in DOMAIN evolution_config.tracking_horizons }

Sufficient(strategy_id, horizon) ==
    Cardinality(Observations(strategy_id, horizon))
        >= evolution_config.degradation.min_trades_required

\* C16: a strategy with no outcome record, or with fewer than
\* min_trades_required observations on every tracked horizon, gets no
\* WeightChange from summarize_strategy_performance followed by
\* evolve_weights.
C16_InsufficientDataUnchanged ==
    Summarized =>
        \A strategy_id \in DOMAIN evolution_config.strategy_to_weight_key :
            (\A horizon \in TrackedHorizons : ~Sufficient(strategy_id, horizon))
            => \A k \in DOMAIN performance_run.changes :
                   performance_run.changes[k].strategy_id # strategy_id

\* C17: a strategy is summarized over its last window_size records by
\* timestamp; a horizon with fewer than min_trades_required observations
\* there reports win_rate 0 and avg_return 0 and gives no reason; another
\* horizon reports its win rate (returns > 0) and mean return rounded to four
\* places and triggers iff the win rate is below win_rate_threshold or the
\* mean return is below its benchmark; the strategy is degraded iff some
\* horizon triggers.
C17_DegradationFromWindow ==
    Summarized =>
        LET summary == performance_run.performance_summary
            degradation_cfg == evolution_config.degradation
        IN /\ DOMAIN summary = { outcomes_file[i].strategy_id : i \in DOMAIN outcomes_file }
           /\ \A strategy_id \in DOMAIN summary :
                  LET row == summary[strategy_id]
                      count(horizon) == Cardinality(Observations(strategy_id, horizon))
                      wins(horizon) ==
                          Cardinality({ i \in Observations(strategy_id, horizon) :
                                          outcomes_file[i].returns_pct[horizon] > 0 })
                      total(horizon) ==
                          SumOver([i \in Observations(strategy_id, horizon) |->
                                      outcomes_file[i].returns_pct[horizon]],
                                  Observations(strategy_id, horizon))
                      triggers(horizon) ==
                          /\ Sufficient(strategy_id, horizon)
                          /\ \/ wins(horizon) * 100
                                    < degradation_cfg.win_rate_threshold * count(horizon)
                             \/ total(horizon)
                                    < degradation_cfg.benchmark_return_by_horizon[horizon]
                                          * count(horizon)
                      blamed == { row.degraded_reasons[k].horizon :
                                      k \in DOMAIN row.degraded_reasons }
                  IN /\ DOMAIN row.metrics = TrackedHorizons
                     /\ \A horizon \in TrackedHorizons :
                            /\ row.metrics[horizon].trade_count = count(horizon)
                            /\ ~Sufficient(strategy_id, horizon)
                                   => /\ row.metrics[horizon].win_rate = 0
                                      /\ row.metrics[horizon].avg_return_pct = 0
                            /\ Sufficient(strategy_id, horizon)
                                   => /\ 2 * Abs(row.metrics[horizon].win_rate * count(horizon)
                                                     - wins(horizon) * 10000)
                                             <= count(horizon)
                                      /\ 2 * Abs(row.metrics[horizon].avg_return_pct
                                                         * count(horizon)
                                                     - total(horizon) * 10000)
                                             <= count(horizon)
                            /\ horizon \in blamed <=> triggers(horizon)
                     /\ row.degraded <=> \E horizon \in TrackedHorizons : triggers(horizon)

C17_Witness ==
    /\ Summarized
    /\ \E strategy_id \in DOMAIN performance_run.performance_summary :
           LET row == performance_run.performance_summary[strategy_id]
           IN /\ Cardinality(RecordsOf(strategy_id))
                     > evolution_config.degradation.window_size
              /\ \E i \in RecordsOf(strategy_id) \ WindowOf(strategy_id) :
                     outcomes_file[i].returns_pct["1d"] < 0
              /\ ~row.degraded
              /\ row.metrics["1d"].win_rate = 10000
              /\ ~Sufficient(strategy_id, "5d")

----------------------------------------------------------------------------
(* Properties of the health history *)

\* C6: the stored series has at most one entry per calendar date, is sorted
\* by date ascending, and holds for each date the snapshot of the latest call
\* for that date.
C6_HistoryOneEntryPerDate ==
    LET n == Len(health_history)
    IN /\ \A i, j \in 1..n :
              i < j => _parse_date(health_history[i].date)
                           < _parse_date(health_history[j].date)
       /\ \A i \in 1..n :
              health_history[i] = history_calls[_parse_date(health_history[i].date)]
       /\ \A day \in DOMAIN history_calls :
              \E i \in 1..n : health_history[i] = history_calls[day]

\* the trend of the stored history has been computed
TrendComputed == health_trend # EmptyDict

\* the rows of the stored history with a health score of at least 85
HealthyRows == {i \in DOMAIN health_history : health_history[i].health_score >= 85}

\* C25: recovery_time_days is the number of days between the latest entry's
\* date and the most recent entry, the latest included, with a health score
\* >= 85: it is 0 exactly when the latest entry is healthy, never negative,
\* and null exactly when no entry is healthy.
C25_RecoveryTimeDays ==
    TrendComputed =>
        LET n == Len(health_history)
        IN /\ "recovery_time_days" \notin DOMAIN health_trend <=> HealthyRows = {}
           /\ HealthyRows # {} =>
                  LET last_healthy == CHOOSE i \in HealthyRows :
                                          \A j \in HealthyRows : j <= i
                      days == health_trend.recovery_time_days
                  IN /\ days = _parse_date(health_history[n].date)
                                   - _parse_date(health_history[last_healthy].date)
                     /\ days >= 0
                     /\ days = 0 <=> health_history[n].health_score >= 85

\* the violations of the trailing 20 entries
TrailingViolations == WindowViolations(LastRows(health_history, 20))

\* C26: the root-cause summary counts the violations of the trailing 20
\* entries by kind, all violations of one kind together, and returns at most
\* 5 kinds by count descending, equal counts in first-seen order.
C26_RootCauseCountsKinds ==
    TrendComputed =>
        LET summary == health_trend.root_cause_summary
            Kind(i) == summary[i].violation.violation
            KindCount(kind) ==
                Len(SelectSeq(TrailingViolations, LAMBDA v : v.violation = kind))
            FirstSeen(kind) ==
                CHOOSE k \in DOMAIN TrailingViolations :
                    /\ TrailingViolations[k].violation = kind
                    /\ \A j \in 1..(k - 1) : TrailingViolations[j].violation # kind
        IN /\ Len(summary) <= 5
           /\ \A i \in DOMAIN summary : summary[i].count = KindCount(Kind(i))
           /\ \A i, j \in DOMAIN summary :
                  i < j => /\ Kind(i) # Kind(j)
                           /\ \/ summary[i].count > summary[j].count
                              \/ /\ summary[i].count = summary[j].count
                                 /\ FirstSeen(Kind(i)) < FirstSeen(Kind(j))

----------------------------------------------------------------------------
(* Properties of the health guard *)

Guarded == guard_result # EmptyDict

\* C7: below the block threshold every BUY is returned as HOLD with
\* base_rating BUY and sanity_guard_active true, and no BUY remains; at or
\* above the threshold every rating equals the input rating.
C7_GuardDowngradesBuy ==
    Guarded =>
        LET rows == guard_call.analysis_results
            adjusted == guard_result.adjusted
            below == guard_call.sanity_report.health_score
                         < sanity_config.block_buy_below_health_score
        IN /\ Len(adjusted) = Len(rows)
           /\ \A i \in 1..Len(rows) :
                  IF below
                  THEN /\ adjusted[i].rating # "BUY"
                       /\ rows[i].rating = "BUY" =>
                              /\ adjusted[i].rating = "HOLD"
                              /\ adjusted[i].base_rating = "BUY"
                              /\ adjusted[i].sanity_guard_active
                  ELSE adjusted[i].rating = rows[i].rating

C7_Witness ==
    /\ Guarded
    /\ guard_result.controls.health_guard_active
    /\ \E i \in 1..Len(guard_call.analysis_results) :
           /\ guard_call.analysis_results[i].rating = "BUY"
           /\ guard_result.adjusted[i].rating = "HOLD"

\* C27: the guard is an overlay: the adjusted batch has the rows of the input
\* in the same order, every input field other than rating is kept, HOLD and
\* SELL are never changed, base_rating is the input rating, and
\* buy_recommendations_downgraded counts the input BUYs when the guard is
\* active and is 0 otherwise.
C27_GuardIsOverlay ==
    Guarded =>
        LET rows == guard_call.analysis_results
            adjusted == guard_result.adjusted
            active == guard_result.controls.health_guard_active
            input_buys == Cardinality({i \in 1..Len(rows) : rows[i].rating = "BUY"})
        IN /\ Len(adjusted) = Len(rows)
           /\ \A i \in 1..Len(rows) :
                  /\ DOMAIN rows[i] \subseteq DOMAIN adjusted[i]
                  /\ \A field \in DOMAIN rows[i] \ {"rating"} :
                         adjusted[i][field] = rows[i][field]
                  /\ rows[i].rating # "BUY" => adjusted[i].rating = rows[i].rating
                  /\ adjusted[i].rating # rows[i].rating =>
                         active /\ adjusted[i].rating = "HOLD"
                  /\ adjusted[i].base_rating = rows[i].rating
           /\ guard_result.controls.buy_recommendations_downgraded
                  = (IF active THEN input_buys ELSE 0)

\* an active guard over a batch holding a BUY and a row that is not a BUY
C27_Witness ==
    /\ Guarded
    /\ guard_result.controls.health_guard_active
    /\ guard_result.controls.buy_recommendations_downgraded = 1
    /\ Len(guard_call.analysis_results) = 2
    /\ \E i \in 1..2 : guard_call.analysis_results[i].rating = "SELL"

----------------------------------------------------------------------------
(* Properties of the daily sanity evaluation *)

Evaluated == daily_sanity_report # EmptyDict

Names(violations) == { violations[k].violation : k \in DOMAIN violations }

\* C12: each stock's penalty is min(number of violations, violation_cap) *
\* per_violation, the health score is max(0, 100 - sum of the penalties) and
\* so within [0, 100], no stock contributes more than violation_cap *
\* per_violation, and violation_count is the uncapped number of violations.
C12_HealthScoreFromCappedPenalties ==
    Evaluated =>
        LET per_stock == daily_sanity_report.per_stock
            cap == sanity_config.health_score.violation_cap
            per_violation == sanity_config.health_score.penalties.per_violation
            sum == SumSeq([i \in DOMAIN per_stock |-> per_stock[i].penalty])
        IN /\ Len(per_stock) = Len(analyses)
           /\ \A i \in DOMAIN per_stock :
                  LET count == Len(per_stock[i].violations)
                  IN /\ per_stock[i].penalty =
                            (IF count <= cap THEN count ELSE cap) * per_violation
                     /\ per_stock[i].penalty <= cap * per_violation
           /\ daily_sanity_report.health_score = (IF sum >= 100 THEN 0 ELSE 100 - sum)
           /\ daily_sanity_report.health_score \in 0..100
           /\ daily_sanity_report.violation_count =
                  SumSeq([i \in DOMAIN per_stock |-> Len(per_stock[i].violations)])

C12_Witness ==
    /\ Evaluated
    /\ daily_sanity_report.health_score = 0
    /\ daily_sanity_report.total_penalty > 100
    /\ \E i \in DOMAIN daily_sanity_report.per_stock :
           Len(daily_sanity_report.per_stock[i].violations)
               > sanity_config.health_score.violation_cap
    /\ daily_sanity_report.violation_count * sanity_config.health_score.penalties.per_violation
           > daily_sanity_report.total_penalty

\* C13: a result has a rating_mismatch violation iff its rating differs from
\* the rating its own score gives under the configured buy_min and hold_min.
C13_RatingMismatchIffDiffers ==
    Evaluated =>
        \A i \in DOMAIN analyses :
            LET thresholds == sanity_config.rules.rating_thresholds
                score == analyses[i].score
                derived == CASE score >= thresholds.buy_min -> "BUY"
                             [] score < thresholds.buy_min /\ score >= thresholds.hold_min
                                    -> "HOLD"
                             [] OTHER -> "SELL"
            IN "rating_mismatch" \in Names(daily_sanity_report.per_stock[i].violations)
                   <=> analyses[i].rating # derived

C13_Witness ==
    /\ Evaluated
    /\ \E i, j \in DOMAIN analyses :
           /\ analyses[i].rating = "SELL"
           /\ analyses[i].score >= sanity_config.rules.rating_thresholds.hold_min
           /\ "rating_mismatch" \in Names(daily_sanity_report.per_stock[i].violations)
           /\ "rating_mismatch" \notin Names(daily_sanity_report.per_stock[j].violations)

\* C14: a result with current_price <= 0 has invalid_current_price and no
\* target_return_mismatch; a result with current_price > 0 has no
\* invalid_current_price and has target_return_mismatch iff
\* |((target_price / current_price) - 1) * 100 - expected_return_pct| exceeds
\* the tolerance.
C14_TargetConsistency ==
    Evaluated =>
        \A i \in DOMAIN analyses :
            LET row == analyses[i]
                names == Names(daily_sanity_report.per_stock[i].violations)
                tolerance == sanity_config.rules.target_return_tolerance_pct
                \* (implied - expected) * current_price, in tenths of a percent
                deviation == (row.target_price - row.current_price) * 1000
                                 - row.expected_return_pct * row.current_price
            IN IF row.current_price <= 0
               THEN /\ "invalid_current_price" \in names
                    /\ "target_return_mismatch" \notin names
               ELSE /\ "invalid_current_price" \notin names
                    /\ "target_return_mismatch" \in names
                           <=> (\/ deviation > tolerance * row.current_price
                                \/ -deviation > tolerance * row.current_price)

C14_Witness ==
    /\ Evaluated
    /\ \E i, j \in DOMAIN analyses :
           /\ analyses[i].current_price <= 0
           /\ "invalid_current_price" \in Names(daily_sanity_report.per_stock[i].violations)
           /\ analyses[j].target_price < analyses[j].current_price
           /\ "target_return_mismatch" \in Names(daily_sanity_report.per_stock[j].violations)

----------------------------------------------------------------------------
(* Properties of the scoring engine *)

Analyzed == analysis_result # EmptyDict

\* the composite of the call's input, before the daily cap
UncappedComposite ==
    calculate_composite_score(
        calculate_score_breakdown(analysis_call.analysis_input, analysis_config),
        analysis_config)

CapApplies ==
    /\ Analyzed
    /\ "previous_score" \in DOMAIN analysis_call
    /\ "max_daily_score_change" \in DOMAIN analysis_config.safety_guards
    /\ ~analysis_config.safety_guards.manual_overrides.disable_score_change_cap

\* C8: with a previous score, a configured cap and no override, the final
\* score is the uncapped composite clamped to previous_score +/- the cap, so
\* it is within the cap of the previous score, and score_before_daily_cap is
\* the uncapped composite.
C8_ScoreWithinDailyCap ==
    CapApplies =>
        LET previous == analysis_call.previous_score
            cap == analysis_config.safety_guards.max_daily_score_change
            uncapped == UncappedComposite
            score == analysis_result.score
        IN /\ score = (IF uncapped < previous - cap THEN previous - cap
                       ELSE IF uncapped > previous + cap THEN previous + cap
                       ELSE uncapped)
           /\ score - previous <= cap
           /\ previous - score <= cap
           /\ analysis_result.score_before_daily_cap = uncapped

C8_Witness ==
    /\ CapApplies
    /\ analysis_result.score = analysis_call.previous_score
                                   - analysis_config.safety_guards.max_daily_score_change
    /\ analysis_result.score_before_daily_cap < analysis_result.score
    /\ analysis_config.safety_guards.max_daily_score_change > 0

\* C9: the score of every result is within [score_bounds.min, score_bounds.max],
\* for all component scores and every optional previous_score.
C9_ScoreWithinBounds ==
    Analyzed => /\ analysis_result.score >= analysis_config.score_bounds.min
                /\ analysis_result.score <= analysis_config.score_bounds.max

\* C10: the rating is BUY iff score >= buy_min, HOLD iff hold_min <= score <
\* buy_min, and SELL otherwise, for the final score of the result.
C10_RatingFromFinalScore ==
    Analyzed =>
        LET score == analysis_result.score
            buy_min == analysis_config.rating_thresholds.buy_min
            hold_min == analysis_config.rating_thresholds.hold_min
        IN /\ analysis_result.rating = "BUY" <=> score >= buy_min
           /\ analysis_result.rating = "HOLD" <=> (hold_min <= score /\ score < buy_min)
           /\ analysis_result.rating = "SELL" <=> (score < hold_min /\ score < buy_min)

C10_Witness ==
    /\ Analyzed
    /\ "previous_score" \in DOMAIN analysis_call
    /\ analysis_result.score = analysis_config.rating_thresholds.buy_min
    /\ analysis_result.score_before_daily_cap < analysis_config.rating_thresholds.hold_min

\* the ten fields every result carries
BaseResultKeys ==
    {"ticker", "mode", "score", "rating", "current_price", "target_price",
     "expected_return_pct", "risk_level", "key_reasons", "invalidating_factors"}

\* C28: the result carries previous_score and score_before_daily_cap exactly
\* when a previous score was supplied, whether or not the cap changed the
\* score; without one its keys are exactly the ten base fields.
C28_AuditKeysIffPreviousScore ==
    Analyzed =>
        /\ "previous_score" \in DOMAIN analysis_call =>
               /\ DOMAIN analysis_result
                      = BaseResultKeys \cup {"previous_score", "score_before_daily_cap"}
               /\ analysis_result.previous_score = analysis_call.previous_score
               /\ analysis_result.score_before_daily_cap = UncappedComposite
        /\ "previous_score" \notin DOMAIN analysis_call =>
               DOMAIN analysis_result = BaseResultKeys

\* a previous score was supplied, the cap left the score alone, and the audit
\* keys are there
C28_Witness ==
    /\ Analyzed
    /\ "previous_score" \in DOMAIN analysis_call
    /\ analysis_result.score = analysis_result.score_before_daily_cap
    /\ "previous_score" \in DOMAIN analysis_result
    /\ analysis_result.rating = "BUY"

\* the call with the earnings score of the other mode replaced
WithUnselectedEarnings(call, other) ==
    LET analysis_input == call.analysis_input
        scores == IF analysis_input.mode = "PRE_EARNINGS"
                  THEN [analysis_input.scores EXCEPT !.earnings_context_post = other]
                  ELSE [analysis_input.scores EXCEPT !.earnings_context_pre = other]
    IN [call EXCEPT !.analysis_input = [analysis_input EXCEPT !.scores = scores]]

\* the composite of the four plain components and one earnings score
CompositeWith(earnings_score) ==
    LET scores == analysis_call.analysis_input.scores
        weights == analysis_config.weights
        bounds == analysis_config.score_bounds
        part(value, key) == _clamp(value, bounds.min, bounds.max) * weights[key]
        total == part(scores.trend_momentum, "trend_momentum")
                     + part(scores.fundamentals, "fundamentals")
                     + part(scores.news_sentiment, "news_sentiment")
                     + part(earnings_score, "earnings_context")
                     + part(scores.risk_volatility, "risk_volatility")
    IN _clamp(RoundHalfEven(total, 100), bounds.min, bounds.max)

IsModeTest(mode) ==
    /\ Analyzed
    /\ "previous_score" \notin DOMAIN analysis_call
    /\ analysis_call.analysis_input.scores = TestScores
    /\ analysis_call.analysis_input.mode = mode
    /\ analysis_config.weights = DefaultWeights

\* C11: the composite is computed with earnings_context_pre in PRE_EARNINGS
\* mode and earnings_context_post in POST_EARNINGS mode, no field of the
\* result changes when the other earnings score changes, and the scores
\* 80/80/80/pre 100/post 0/80 with the default weights give 83 in
\* PRE_EARNINGS mode and 68 in POST_EARNINGS mode, both rated BUY under the
\* default thresholds.
C11_SelectedEarningsOnly ==
    /\ Analyzed =>
           LET scores == analysis_call.analysis_input.scores
               selected == IF analysis_call.analysis_input.mode = "PRE_EARNINGS"
                           THEN scores.earnings_context_pre
                           ELSE scores.earnings_context_post
           IN /\ UncappedComposite = CompositeWith(selected)
              /\ \A other \in EarningsScoreChoices :
                     analyze_stock(WithUnselectedEarnings(analysis_call, other),
                                   analysis_config) = analysis_result
    /\ IsModeTest("PRE_EARNINGS") => analysis_result.score = 83
    /\ IsModeTest("POST_EARNINGS") => analysis_result.score = 68
    /\ \A mode \in {"PRE_EARNINGS", "POST_EARNINGS"} :
           (IsModeTest(mode)
            /\ analysis_config.rating_thresholds = DefaultRatingThresholds)
           => analysis_result.rating = "BUY"

C11_Witness ==
    /\ IsModeTest("POST_EARNINGS")
    /\ analysis_config.rating_thresholds = DefaultRatingThresholds
    /\ analysis_result.score = 68
    /\ analysis_result.rating = "BUY"
    /\ analysis_call.analysis_input.scores.earnings_context_pre = 100

----------------------------------------------------------------------------
(* Properties of configuration loading *)

ConfigRead == config_load # EmptyDict

\* the sections scoring reads from the analysis config
RequiredConfigKeys ==
    {"weights", "score_bounds", "rating_thresholds", "target_price",
     "risk_level_thresholds", "reason_generation", "safety_guards"}

\* C19: a load succeeds only for a file that has every required section and
\* whose buy_min is greater than its hold_min, so no analysis runs under
\* thresholds with buy_min <= hold_min.
C19_InconsistentThresholdsRejected ==
    /\ (ConfigRead /\ config_load.outcome = "loaded")
       => /\ RequiredConfigKeys \subseteq DOMAIN config_load.file
          /\ config_load.file.rating_thresholds.buy_min
                 > config_load.file.rating_thresholds.hold_min
    /\ Analyzed => analysis_config.rating_thresholds.buy_min
                       > analysis_config.rating_thresholds.hold_min

\* C20: a load succeeds only for a file whose weights sum to 100 and then
\* returns that file; a file with any other weight total raises ValueError
\* and returns no config; every analysis runs with weights that sum to 100.
C20_WeightSumChecked ==
    /\ ConfigRead =>
           LET file == config_load.file
           IN /\ config_load.outcome = "loaded"
                     => /\ SumValues(file.weights) = 100
                        /\ analysis_config = file
              /\ ("weights" \in DOMAIN file /\ SumValues(file.weights) # 100)
                     => /\ config_load.outcome = "ValueError"
                        /\ analysis_config = EmptyDict
                        /\ ~Analyzed
    /\ Analyzed => SumValues(analysis_config.weights) = 100

C20_Witness ==
    /\ ConfigRead
    /\ config_load.outcome = "ValueError"
    /\ SumValues(config_load.file.weights) < 100
    /\ analysis_config = EmptyDict

----------------------------------------------------------------------------
(* Properties of the manual analysis endpoint *)

Responded(request) == manual_requests[request].stage = "responded"

\* a payload the endpoint has to reject: ticker missing or empty, mode not one
\* of the two, strategy_parameters missing or malformed, a component score
\* missing or not a JSON number, the price missing, not a JSON number or <= 0
MustBeRejected(payload) ==
    LET scores == Get(payload, "component_scores")
        price == IF "current_price_override" \in DOMAIN payload
                 THEN payload["current_price_override"]
                 ELSE Get(payload, "current_price")
    IN \/ ~IsNonEmptyString(Get(payload, "ticker"))
       \/ Get(payload, "mode")
              \notin {JsonString("PRE_EARNINGS"), JsonString("POST_EARNINGS")}
       \/ "value" \notin DOMAIN _validate_strategy(payload)
       \/ scores.type # "object"
       \/ \E field \in DOMAIN TestScores :
              \/ field \notin DOMAIN scores.members
              \/ scores.members[field].type # "number"
       \/ price.type # "number"
       \/ "value" \in DOMAIN price /\ price.value <= 0

\* C21: handle_manual_analysis never raises; it answers 400 with an error
\* message and no analysis field when the ticker is missing or empty, the
\* mode is invalid, strategy_parameters is missing or malformed, a component
\* score is missing or non-numeric, or the price is missing, non-numeric or
\* <= 0, and 200 with the analysis result and the strategy echoed otherwise.
C21_ManualRequestValidated ==
    \A request \in DOMAIN manual_requests :
        Responded(request) =>
            LET payload == manual_requests[request].payload
                response == manual_requests[request].response
            IN /\ "raised" \notin DOMAIN response
               /\ IF MustBeRejected(payload)
                  THEN /\ response.status = 400
                       /\ DOMAIN response.body = {"error"}
                  ELSE /\ response.status = 200
                       /\ DOMAIN response.body
                              = BaseResultKeys \cup {"strategy_parameters"}
                       /\ response.body.strategy_parameters
                              = _validate_strategy(payload).value

\* C23: requests served concurrently under one shared config are independent:
\* whatever the interleaving of the handler threads, what a thread has
\* validated and the response it writes are those of its own payload handled
\* alone, and the shared config stays the one loaded at start.
C23_RequestsIndependent ==
    /\ handler_config \in ManualConfigs
    /\ \A request \in DOMAIN manual_requests :
           LET payload == manual_requests[request].payload
           IN /\ "validated" \in DOMAIN manual_requests[request] =>
                     manual_requests[request].validated
                         = validate_manual_request(payload)
              /\ manual_requests[request].stage = "received" =>
                     "validated" \notin DOMAIN manual_requests[request]
              /\ Responded(request) =>
                     manual_requests[request].response
                         = handle_manual_analysis(payload, handler_config)

\* a later request was answered 200 while an earlier one, which is to get
\* 400, is still between validation and response
C23_Witness ==
    \E first, second \in DOMAIN manual_requests :
        /\ first < second
        /\ manual_requests[first].stage = "validated"
        /\ "error" \in DOMAIN manual_requests[first].validated
        /\ Responded(second)
        /\ manual_requests[second].response.status = 200

----------------------------------------------------------------------------
(* Properties of the daily scanner run *)

DailyRunning == daily_run # EmptyDict

\* a stock entry with a missing field, a score that is not a number or a
\* price that is not a number above 0
Malformed(stock) ==
    \/ {"ticker", "mode", "current_price", "scores"} \ DOMAIN stock # {}
    \/ stock["current_price"].type # "number"
    \/ stock["current_price"].value <= 0
    \/ \E field \in DOMAIN TestScores :
           \/ field \notin DOMAIN stock["scores"].members
           \/ stock["scores"].members[field].type # "number"

\* C22: a malformed stock of the batch is rejected for that stock only: the
\* run is not aborted, no result is produced for the malformed stock, and
\* every well-formed stock read is analysed.
C22_MalformedStockRejectedAlone ==
    DailyRunning =>
        LET scanned == daily_run.scanned
            well_formed == SelectSeq(scanned, LAMBDA stock : ~Malformed(stock))
        IN /\ daily_run.stage # "raised"
           /\ Len(daily_run.scored) = Len(well_formed)
           /\ \A i \in DOMAIN well_formed :
                  daily_run.scored[i].ticker = well_formed[i]["ticker"].text

\* the stage of the run is one of those given
StageIn(stages) == DailyRunning /\ daily_run.stage \in stages

\* C30: the stages of the daily run execute in the order scoring, sanity
\* evaluation, health guard, history update; the sanity report and the stored
\* history entry are computed from the ratings as scored, before the guard:
\* with the sanity thresholds equal to the scoring thresholds no result yields
\* a rating_mismatch, and a downgrade by the guard changes neither the day's
\* health score nor its stored violation count.
C30_ReportFromPreGuardRatings ==
    LET scored == daily_run.scored
        report == evaluate_daily_sanity(scored, sanity_config)
    IN /\ StageIn({"scanning", "raised"}) =>
              /\ daily_sanity_report = EmptyDict
              /\ guard_result = EmptyDict
              /\ health_history = <<>>
              /\ analyses = scored
       /\ StageIn({"evaluated", "guarded", "stored"}) =>
              /\ daily_sanity_report = report
              /\ \A i \in DOMAIN scored :
                     /\ scored[i].rating
                            = map_score_to_rating(scored[i].score, analysis_config)
                     /\ "rating_mismatch" \notin Names(report.per_stock[i].violations)
       /\ StageIn({"evaluated"}) =>
              guard_result = EmptyDict /\ health_history = <<>> /\ analyses = scored
       /\ StageIn({"guarded", "stored"}) =>
              /\ guard_call.analysis_results = scored
              /\ guard_call.sanity_report = report
              /\ analyses = guard_result.adjusted
              /\ \A i \in DOMAIN scored : analyses[i].base_rating = scored[i].rating
       /\ StageIn({"guarded"}) => health_history = <<>>
       /\ StageIn({"stored"}) =>
              /\ Len(health_history) = 1
              /\ health_history[1].health_score = report.health_score
              /\ health_history[1].violation_count = report.violation_count
              /\ health_history[1].stock_count = Len(scored)
              /\ \A i \in DOMAIN scored :
                     health_history[1].violations_by_ticker[i].violations
                         = report.per_stock[i].violations

\* the run has stored its entry after the guard downgraded a BUY whose
\* rating as returned no longer matches its score
C30_Witness ==
    /\ StageIn({"stored"})
    /\ guard_result.controls.buy_recommendations_downgraded >= 1
    /\ \E i \in DOMAIN analyses :
           /\ analyses[i].rating = "HOLD"
           /\ daily_run.scored[i].rating = "BUY"
           /\ "rating_mismatch"
                  \in Names(RowViolations(analyses[i], sanity_config.rules))
           /\ "rating_mismatch"
                  \notin Names(daily_sanity_report.per_stock[i].violations)

====
